---------------------------- MODULE Spec2Model ----------------------------
(***************************************************************************)
(* A model of go-canopy's message queue (internal/queue) and webhook        *)
(* signature validation (internal/webhook).                                 *)
(*                                                                          *)
(* The queue has three backends behind one interface (interface.go):        *)
(*   "mem"    InMemoryQueue  a buffered Go channel guarded by an RWMutex    *)
(*   "stream" RedisQueue     a Redis stream read through a consumer group   *)
(*   "topic"  PubSubQueue    a Pub/Sub topic with one subscription          *)
(* One behaviour of Spec runs one backend, chosen in Init.                  *)
(***************************************************************************)
EXTENDS Integers, Sequences, FiniteSets, TLC

\* ------------------------------------------------------------------ bounds
\* Publish calls (and foreign stream entries) that are given an identity.
MaxPublish == 2
\* cfg.BufferSize the in-memory queue was built with.
BufSize == 1
\* Redeliveries of nacked messages the topic service makes in one run.
MaxRedeliveries == 1
\* The longest payload handed to the validator, in bytes.
MaxPayloadLen == 2

\* ------------------------------------------------------- program constants
\* XReadGroupArgs.Count
ReadCount == 10
\* ReceiveSettings.MaxOutstandingMessages
MaxOutstandingMessages == 10

Ids == 1..MaxPublish
\* A nil *WorkRequest.
NoReq == 0
Publishers == {"p1", "p2"}
Backends == {"mem", "stream", "topic"}
\* What a message holds: a marshalled WorkRequest ("valid"), JSON that
\* unmarshals but lacks fields ("missing"), bytes that are not JSON
\* ("badjson"), a stream entry whose data field is no string ("nodata").
Kinds == {"valid", "missing", "badjson", "nodata"}

VARIABLES
  backend,        \* which MessageQueue implementation this run uses
  nextId,         \* identity of the next request / message
  kind,           \* kind[m]: contents of message m ("none": not created)
  \* ---- InMemoryQueue
  ch,             \* q.ch: the buffered channel, oldest first
  chClosed,       \* close(q.ch) has run
  closed,         \* q.closed
  pubPc,          \* per Publish caller: "idle", "rlock", "select"
  pubReq,         \* the request of the caller's running call
  pubCtx,         \* the ctx of the caller's running call is done
  pubAfterClose,  \* the caller's running call started after some Close
                  \* had returned
  lastPub,        \* the Publish call that returned last: what it returned,
                  \* and whether it had started after some Close returned
  closePc,        \* the caller of Close: "idle", "lock"
  closeReturned,  \* some Close call has returned
  \* ---- RedisQueue
  stream,         \* the stream's entries, oldest first
  lastDelivered,  \* the consumer group's last-delivered position
  pel,            \* the group's pending entries list
  batch,          \* messages of the XReadGroup reply still to process
  readsAfterCancel, \* XReadGroup calls that returned after ctx was done
  \* ---- PubSubQueue
  topicMsgs,      \* messages the subscription holds for (re)delivery
  inflight,       \* messages whose callback is running
  redeliveries,   \* times a nacked message was handed to the callback again
  \* ---- the subscriber (all backends)
  subPc,          \* "idle", "select", "handler", "top", "read", "process",
                  \* "receive", "done"
  subCur,         \* the request the handler is running on
  subCtx,         \* the subscriber's ctx is done
  subRes,         \* what Subscribe returned
  polled,         \* the subscriber has completed a receive / read
  cancelBeforePoll, \* ctx was cancelled before the first completed poll
  \* ---- history
  accepted,       \* messages in the order the queue accepted them
  log,            \* one record per processed delivery, in order
  \* ---- ValidateHMAC
  hPayload,       \* the request body given to the validator
  hSecret,        \* the shared secret
  hHeader,        \* the X-Hub-Signature-256 header
  hOrig,          \* what ValidateHMAC returned on them ("none": not called)
  hAltered,       \* the body and header after one byte was replaced
  hResult,        \* what ValidateHMAC returned on the altered ones
  \* ---- Storage (MinIOStorage / GCSStorage)
  sBackend,       \* which Storage implementation this run uses
  objects,        \* the bucket: what each object path holds
  call,           \* per worker: its running or last SaveCoverage /
                  \* GetCoverage call
  nCalls,         \* calls started so far
  settled,        \* per key: the bytes of the last SaveCoverage that
                  \* returned nil, valid while no other SaveCoverage of
                  \* that key ran during it or started after it
  finished,       \* the SaveCoverage calls that returned, in that order
  nApplied,       \* number of writes the bucket has applied
  \* ---- coverage: MergeProfiles
  mergeIn,        \* the mode and the two profile sequences A and B
  mergeOut,       \* what MergeProfiles returned on A+B, B+A, A,
                  \* merge(A)+B and [P, P] ("none": not called)
  \* ---- coverage: ParseProfiles / SerializeProfiles
  parseIn,        \* the coverage data given to ParseProfiles
  parseOut,       \* the first parse, its serialisation, the second parse
  \* ---- coverage: findMatchingDiffFile
  matchIn,        \* the profile's file name and the diff's file names
  matchOut,       \* what findMatchingDiffFile returned
  \* ---- coverage: AnalyzeCoverage
  anaIn,          \* the profiles and the added lines of each diff file
  anaOut,         \* what AnalyzeCoverage returned, with the number of
                  \* added lines it found covered, instrumented, and
                  \* skipped as not instrumented
  \* ---- GenerateAnnotations
  annIn,          \* the uncovered lines of each file
  annOut,         \* the annotations GenerateAnnotations returned
  \* ---- ParseDiff
  diffIn,         \* the diff: per file the hunk's new start and body lines
  diffOut         \* what ParseDiff returned on the diff's text

memVars == <<ch, chClosed, closed, pubPc, pubReq, pubCtx, lastPub,
             pubAfterClose, closePc, closeReturned>>
streamVars == <<stream, lastDelivered, pel, batch, readsAfterCancel>>
topicVars == <<topicMsgs, inflight, redeliveries>>
subVars == <<subPc, subCur, subCtx, subRes, polled, cancelBeforePoll>>
histVars == <<accepted, log>>
hmacVars == <<hPayload, hSecret, hHeader, hOrig, hAltered, hResult>>
storeVars == <<sBackend, objects, call, nCalls, settled, finished, nApplied>>
queueVars == <<backend, nextId, kind, memVars, streamVars, topicVars, subVars,
               histVars>>
mergeVars == <<mergeIn, mergeOut>>
parseVars == <<parseIn, parseOut>>
matchVars == <<matchIn, matchOut>>
covVars == <<mergeVars, parseVars, matchVars>>
anaVars == <<anaIn, anaOut>>
annVars == <<annIn, annOut>>
diffVars == <<diffIn, diffOut>>
prVars == <<anaVars, annVars, diffVars>>
nonQueueVars == <<hmacVars, storeVars, covVars, prVars>>
nonHmacVars == <<queueVars, storeVars, covVars, prVars>>
nonStoreVars == <<queueVars, hmacVars, covVars, prVars>>
nonCovVars == <<queueVars, hmacVars, storeVars, prVars>>
nonPrVars == <<queueVars, hmacVars, storeVars, covVars>>
vars == <<queueVars, hmacVars, storeVars, covVars, prVars>>

Min(a, b) == IF a < b THEN a ELSE b
Range(s) == {s[i] : i \in DOMAIN s}

\* ValidateHMAC is not running.
HmacIdle ==
  /\ hPayload = <<>> /\ hSecret = <<>> /\ hHeader = <<>>
  /\ hOrig = "none" /\ hResult = "none"
  /\ hAltered = [payload |-> <<>>, header |-> <<>>]

\* NewInMemoryQueue / NewRedisQueue / NewPubSubQueue have returned.
QueueInit ==
  /\ backend \in Backends
  /\ nextId = 1
  /\ kind = [m \in Ids |-> "none"]
  /\ ch = <<>> /\ chClosed = FALSE /\ closed = FALSE
  /\ pubPc = [p \in Publishers |-> "idle"]
  /\ pubReq = [p \in Publishers |-> NoReq]
  /\ pubCtx = [p \in Publishers |-> FALSE]
  /\ lastPub = [res |-> "none", afterClose |-> FALSE]
  /\ pubAfterClose = [p \in Publishers |-> FALSE]
  /\ closePc = "idle"
  /\ closeReturned = FALSE
  /\ stream = <<>> /\ lastDelivered = 0 /\ pel = {} /\ batch = <<>>
  /\ readsAfterCancel = 0
  /\ topicMsgs = {} /\ inflight = {}
  /\ redeliveries = 0
  /\ subPc = "idle" /\ subCur = NoReq /\ subCtx = FALSE /\ subRes = "none"
  /\ polled = FALSE /\ cancelBeforePoll = FALSE
  /\ accepted = <<>> /\ log = <<>>

\* ---- Storage: keys, object paths, call records

MaxCalls == 3
Workers == {1, 2}
StorageBackends == {"minio", "gcs"}

OrgNames == {"", "o"}
RepoNames == {"r", "r/x"}
BranchNames == {"y", "x/y"}
CoverageKey == [Org : OrgNames, Repo : RepoNames, Branch : BranchNames]
Blobs == {<<>>, <<1>>}

\* fmt.Sprintf("%s/%s/%s/coverage.out", key.Org, key.Repo, key.Branch)
FormatObjectPath(key) ==
  key.Org \o "/" \o key.Repo \o "/" \o key.Branch \o "/coverage.out"

\* nil iff no field of the key is the empty string.
ValidateCoverageKey(key) ==
  IF key.Org = "" THEN "error"
  ELSE IF key.Repo = "" THEN "error"
  ELSE IF key.Branch = "" THEN "error"
  ELSE "nil"

ValidKeys == {k \in CoverageKey : ValidateCoverageKey(k) = "nil"}
ObjectPaths == {FormatObjectPath(k) : k \in ValidKeys}

NoObject == [exists |-> FALSE, bytes |-> <<>>]
NoResult == [isNil |-> TRUE, bytes |-> <<>>, err |-> "none"]
NoCall ==
  [op |-> "idle", pc |-> "idle", key |-> [Org |-> "", Repo |-> "", Branch |-> ""],
   path |-> "", data |-> <<>>, overlapped |-> FALSE,
   expect |-> [valid |-> FALSE, bytes |-> <<>>], quiet |-> FALSE,
   seen |-> 0, at |-> 0, outcome |-> "none", res |-> NoResult]

\* NewMinIOStorage / NewGCSStorage has returned; the bucket is empty.
StoreEmpty ==
  /\ objects = [p \in ObjectPaths |-> NoObject]
  /\ call = [w \in Workers |-> NoCall]
  /\ nCalls = 0
  /\ settled = [k \in ValidKeys |-> [valid |-> FALSE, bytes |-> <<>>]]
  /\ finished = <<>>
  /\ nApplied = 0

\* No Storage call is made.
StoreIdle == sBackend = "minio" /\ StoreEmpty

\* ---- coverage: results not yet computed

NoMerge == [err |-> "none", profiles |-> <<>>]
NoParse == [err |-> "none", profiles |-> <<>>]
NoMatch == [file |-> <<>>, ok |-> FALSE, called |-> FALSE]

\* The coverage engine is not called.
CovIdle ==
  /\ mergeIn = [mode |-> "set", A |-> <<>>, B |-> <<>>]
  /\ mergeOut = [ab |-> NoMerge, ba |-> NoMerge, a |-> NoMerge,
                 assoc |-> NoMerge, pp |-> NoMerge]
  /\ parseIn = <<>>
  /\ parseOut = [first |-> NoParse, text |-> <<>>, second |-> NoParse]
  /\ matchIn = [profile |-> <<>>, diffs |-> {}]
  /\ matchOut = NoMatch

\* ---- the pull-request pipeline: results not yet computed

NoAnalysis ==
  [called |-> FALSE, UncoveredByFile |-> <<>>, TotalAdded |-> 0,
   TotalUncovered |-> 0, covered |-> 0, instrumented |-> 0, skipped |-> 0]

NoAnnotations == [called |-> FALSE, annotations |-> <<>>]

NoDiff == [called |-> FALSE, err |-> "none", fileDiffs |-> <<>>]

\* The pull-request pipeline is not run.
PrIdle ==
  /\ anaIn = [profiles |-> <<>>, added |-> <<>>]
  /\ anaOut = NoAnalysis
  /\ annIn = <<>>
  /\ annOut = NoAnnotations
  /\ diffIn = <<>>
  /\ diffOut = NoDiff

Init == QueueInit /\ HmacIdle /\ StoreIdle /\ CovIdle /\ PrIdle

\* =========================================================== InMemoryQueue

\* sync.RWMutex: RLock is held by the callers waiting in Publish's select;
\* a caller of Lock is pending from its call until it gets the lock.
\* A faulty lock that counts no reader.
muReadersNone == {}

muReaders == {p \in Publishers : pubPc[p] = "select"}
muWriterPending == closePc = "lock"

\* Publish is called: the nil check, then q.mu.RLock() is requested.
PublishCall(p, req, cancelled) ==
  /\ backend = "mem"
  /\ pubPc[p] = "idle"
  /\ IF req = NoReq
       THEN /\ lastPub' = [res |-> "nilreq", afterClose |-> FALSE]
            /\ UNCHANGED <<nextId, kind, pubPc, pubReq, pubCtx, pubAfterClose>>
       ELSE /\ req = nextId
            /\ nextId <= MaxPublish
            /\ nextId' = nextId + 1
            /\ kind' = [kind EXCEPT ![req] = "valid"]
            /\ pubPc' = [pubPc EXCEPT ![p] = "rlock"]
            /\ pubReq' = [pubReq EXCEPT ![p] = req]
            /\ pubCtx' = [pubCtx EXCEPT ![p] = cancelled]
            /\ pubAfterClose' = [pubAfterClose EXCEPT ![p] = closeReturned]
            /\ UNCHANGED lastPub
  /\ UNCHANGED <<backend, ch, chClosed, closed, closePc, closeReturned,
                 streamVars, topicVars, subVars, histVars, nonQueueVars>>

\* Publish returns res: its deferred RUnlock runs, the call is over.
PublishReturn(p, res) ==
  /\ pubPc' = [pubPc EXCEPT ![p] = "idle"]
  /\ pubReq' = [pubReq EXCEPT ![p] = NoReq]
  /\ pubCtx' = [pubCtx EXCEPT ![p] = FALSE]
  /\ pubAfterClose' = [pubAfterClose EXCEPT ![p] = FALSE]
  /\ lastPub' = [res |-> res, afterClose |-> pubAfterClose[p]]

\* What Publish does once it holds the read lock: the closed check.
\* A faulty Publish that reads q.closed the wrong way round.
PublishClosedCheckInverted(isClosed) == IF isClosed THEN "select" ELSE "closed"

\* A faulty Publish that does not look at q.closed.
PublishClosedCheckSkipped(isClosed) == "select"

PublishClosedCheck(isClosed) == IF isClosed THEN "closed" ELSE "select"

\* q.mu.RLock() is granted (no writer holds or awaits the lock), then the
\* closed check: return the queue-closed error, or go on to the select.
PublishRLock(p) ==
  /\ backend = "mem"
  /\ pubPc[p] = "rlock"
  /\ ~muWriterPending
  /\ IF PublishClosedCheck(closed) = "closed"
       THEN PublishReturn(p, "closed")
       ELSE /\ pubPc' = [pubPc EXCEPT ![p] = "select"]
            /\ UNCHANGED <<pubReq, pubCtx, pubAfterClose, lastPub>>
  /\ UNCHANGED <<backend, nextId, kind, ch, chClosed, closed, closePc,
                 closeReturned, streamVars, topicVars, subVars, histVars,
                 nonQueueVars>>

\* A send on the buffered channel can proceed.
\* A faulty channel that takes a send whatever it holds.
ChanAlwaysCanSend == TRUE

ChanCanSend == Len(ch) < BufSize

\* select case q.ch <- req: the send proceeds, Publish returns nil.
PublishSend(p) ==
  /\ backend = "mem"
  /\ pubPc[p] = "select"
  /\ ChanCanSend
  /\ ch' = Append(ch, pubReq[p])
  /\ accepted' = Append(accepted, pubReq[p])
  /\ PublishReturn(p, "ok")
  /\ UNCHANGED <<backend, nextId, kind, chClosed, closed, closePc,
                 closeReturned, streamVars, topicVars, subVars, log,
                 nonQueueVars>>

\* select case <-ctx.Done(): Publish returns "publish cancelled".
PublishCtxDone(p) ==
  /\ backend = "mem"
  /\ pubPc[p] = "select"
  /\ pubCtx[p]
  /\ PublishReturn(p, "cancelled")
  /\ UNCHANGED <<backend, nextId, kind, ch, chClosed, closed, closePc,
                 closeReturned, streamVars, topicVars, subVars, histVars,
                 nonQueueVars>>

\* The caller of a running Publish cancels its context.
CancelPublish(p) ==
  /\ backend = "mem"
  /\ pubPc[p] # "idle"
  /\ ~pubCtx[p]
  /\ pubCtx' = [pubCtx EXCEPT ![p] = TRUE]
  /\ UNCHANGED <<backend, nextId, kind, ch, chClosed, closed, pubPc, pubReq,
                 lastPub, pubAfterClose, closePc, closeReturned, streamVars,
                 topicVars, subVars, histVars, nonQueueVars>>

\* Close is called: q.mu.Lock() is requested.
CloseCall ==
  /\ backend = "mem"
  /\ closePc = "idle"
  /\ closePc' = "lock"
  /\ UNCHANGED <<backend, nextId, kind, ch, chClosed, closed, pubPc, pubReq,
                 pubCtx, lastPub, pubAfterClose, closeReturned, streamVars,
                 topicVars, subVars, histVars, nonQueueVars>>

\* q.mu.Lock() is granted (no reader holds the lock). Under it Close returns
\* at once when q.closed, else sets q.closed and closes the channel; the
\* deferred Unlock runs and Close returns nil.
CloseLocked ==
  /\ backend = "mem"
  /\ closePc = "lock"
  /\ muReaders = {}
  /\ IF closed
       THEN UNCHANGED <<closed, chClosed>>
       ELSE closed' = TRUE /\ chClosed' = TRUE
  /\ closePc' = "idle"
  /\ closeReturned' = TRUE
  /\ UNCHANGED <<backend, nextId, kind, ch, pubPc, pubReq, pubCtx, lastPub,
                 pubAfterClose, streamVars, topicVars, subVars, histVars,
                 nonQueueVars>>

\* Subscribe is called: a nil handler is refused, otherwise the loop starts.
SubscribeCall(h) ==
  /\ subPc = "idle"
  /\ IF h = "nil"
       THEN /\ subRes' = "nilhandler"
            /\ UNCHANGED subPc
       ELSE /\ subRes' = "none"
            /\ subPc' = CASE backend = "mem" -> "select"
                          [] backend = "stream" -> "top"
                          [] backend = "topic" -> "receive"
  /\ UNCHANGED <<backend, nextId, kind, memVars, streamVars, topicVars,
                 subCur, subCtx, polled, cancelBeforePoll, histVars,
                 nonQueueVars>>

\* The subscriber's context is cancelled (before Subscribe has returned:
\* afterwards nothing reads it).
CancelSubscribe ==
  /\ subPc # "done"
  /\ ~subCtx
  /\ subCtx' = TRUE
  /\ cancelBeforePoll' = ~polled
  /\ UNCHANGED <<backend, nextId, kind, memVars, streamVars, topicVars,
                 subPc, subCur, subRes, polled, histVars, nonQueueVars>>

\* select case req, ok := <-q.ch with ok: a buffered request is received.
SubRecv ==
  /\ backend = "mem"
  /\ subPc = "select"
  /\ ch # <<>>
  /\ subCur' = Head(ch)
  /\ ch' = Tail(ch)
  /\ subPc' = "handler"
  /\ polled' = TRUE
  /\ UNCHANGED <<backend, nextId, kind, chClosed, closed, pubPc, pubReq,
                 pubCtx, lastPub, pubAfterClose, closePc, closeReturned,
                 streamVars, topicVars, subCtx, subRes, cancelBeforePoll,
                 histVars, nonQueueVars>>

\* A faulty receive that reports a closed channel before it is drained.
SubChanClosedEarly ==
  /\ backend = "mem"
  /\ subPc = "select"
  /\ chClosed
  /\ subPc' = "done"
  /\ subRes' = "nil"
  /\ polled' = TRUE
  /\ UNCHANGED <<backend, nextId, kind, memVars, streamVars, topicVars,
                 subCur, subCtx, cancelBeforePoll, histVars, nonQueueVars>>

\* select case <-q.ch with !ok: the channel is closed and drained.
SubChanClosed ==
  /\ backend = "mem"
  /\ subPc = "select"
  /\ ch = <<>>
  /\ chClosed
  /\ subPc' = "done"
  /\ subRes' = "nil"
  /\ polled' = TRUE
  /\ UNCHANGED <<backend, nextId, kind, memVars, streamVars, topicVars,
                 subCur, subCtx, cancelBeforePoll, histVars, nonQueueVars>>

\* select case <-ctx.Done(): Subscribe returns ctx.Err().
SubCtxDone ==
  /\ backend = "mem"
  /\ subPc = "select"
  /\ subCtx
  /\ subPc' = "done"
  /\ subRes' = "ctxErr"
  /\ UNCHANGED <<backend, nextId, kind, memVars, streamVars, topicVars,
                 subCur, subCtx, polled, cancelBeforePoll, histVars,
                 nonQueueVars>>

\* Where Subscribe's loop goes after the handler returned res.
\* A faulty Subscribe that returns when the handler fails.
SubStopOnError(res) == IF res = "err" THEN "done" ELSE "select"

SubAfterHandler(res) == "select"

\* handler(ctx, req) returns res; on an error the loop just continues.
SubHandler(res) ==
  /\ backend = "mem"
  /\ subPc = "handler"
  /\ log' = Append(log, [id |-> subCur, handler |-> res, ack |-> "none"])
  /\ subPc' = SubAfterHandler(res)
  /\ subCur' = NoReq
  /\ UNCHANGED <<backend, nextId, kind, memVars, streamVars, topicVars,
                 subCtx, subRes, polled, cancelBeforePoll, accepted,
                 nonQueueVars>>

MemNext ==
  \/ \E p \in Publishers, req \in {NoReq, nextId}, c \in BOOLEAN :
       PublishCall(p, req, c)
  \/ \E p \in Publishers : PublishRLock(p)
  \/ \E p \in Publishers : PublishSend(p)
  \/ \E p \in Publishers : PublishCtxDone(p)
  \/ \E p \in Publishers : CancelPublish(p)
  \/ CloseCall
  \/ CloseLocked
  \/ SubRecv
  \/ SubChanClosed
  \/ SubCtxDone
  \/ \E res \in {"ok", "err"} : SubHandler(res)

\* ============================================================== RedisQueue

\* RedisQueue.Publish: the nil check, json.Marshal, XAdd. ok: XAdd succeeded
\* and Publish returns nil; otherwise Publish returns an error.
RedisPublish(req, ok) ==
  /\ backend = "stream"
  /\ IF req # NoReq /\ ok
       THEN /\ req = nextId
            /\ nextId <= MaxPublish
            /\ nextId' = nextId + 1
            /\ kind' = [kind EXCEPT ![req] = "valid"]
            /\ stream' = Append(stream, req)
            /\ accepted' = Append(accepted, req)
       ELSE UNCHANGED <<nextId, kind, stream, accepted>>
  /\ UNCHANGED <<backend, memVars, lastDelivered, pel, batch,
                 readsAfterCancel, topicVars, subVars, log, nonQueueVars>>

\* Another producer adds an entry that is no marshalled WorkRequest: the
\* entries processMessage guards against.
RedisForeignAdd(k) ==
  /\ backend = "stream"
  /\ nextId <= MaxPublish
  /\ nextId' = nextId + 1
  /\ kind' = [kind EXCEPT ![nextId] = k]
  /\ stream' = Append(stream, nextId)
  /\ accepted' = Append(accepted, nextId)
  /\ UNCHANGED <<backend, memVars, lastDelivered, pel, batch,
                 readsAfterCancel, topicVars, subVars, log, nonQueueVars>>

\* Faulty loop heads: one that returns unless ctx is done, one that never
\* looks at ctx.
RedisLoopTopInverted(ctxDone) == IF ctxDone THEN "read" ELSE "done"
RedisLoopTopNoCheck(ctxDone) == "read"

\* The head of Subscribe's loop: select on ctx.Done() with a default.
RedisLoopTop(ctxDone) == IF ctxDone THEN "done" ELSE "read"

RedisCtxCheck ==
  /\ backend = "stream"
  /\ subPc = "top"
  /\ subPc' = RedisLoopTop(subCtx)
  /\ subRes' = IF subPc' = "done" THEN "ctxErr" ELSE subRes
  /\ UNCHANGED <<backend, nextId, kind, memVars, streamVars, topicVars,
                 subCur, subCtx, polled, cancelBeforePoll, histVars,
                 nonQueueVars>>

\* A faulty read that returns the new entries newest first.
NeverDeliveredNewestFirst ==
  LET s == SubSeq(stream, lastDelivered + 1,
                  Min(Len(stream), lastDelivered + ReadCount))
  IN [i \in 1..Len(s) |-> s[Len(s) + 1 - i]]

\* The entries XReadGroup with ">" returns: those never delivered to the
\* group, at most Count of them.
NeverDelivered ==
  SubSeq(stream, lastDelivered + 1, Min(Len(stream), lastDelivered + ReadCount))

\* One more XReadGroup call has returned; counted once ctx is done.
ReadReturned == IF subCtx THEN readsAfterCancel + 1 ELSE readsAfterCancel

\* XReadGroup returns entries: they enter the pending entries list.
RedisReadMsgs ==
  /\ backend = "stream"
  /\ subPc = "read"
  /\ NeverDelivered # <<>>
  /\ batch' = NeverDelivered
  /\ pel' = pel \cup Range(NeverDelivered)
  /\ lastDelivered' = lastDelivered + Len(NeverDelivered)
  /\ subPc' = "process"
  /\ polled' = TRUE
  /\ readsAfterCancel' = ReadReturned
  /\ UNCHANGED <<backend, nextId, kind, memVars, stream, topicVars, subCur,
                 subCtx, subRes, cancelBeforePoll, histVars, nonQueueVars>>

\* XReadGroup blocks for Block (5 s) with nothing to read, returns redis.Nil.
RedisReadNil ==
  /\ backend = "stream"
  /\ subPc = "read"
  /\ NeverDelivered = <<>>
  /\ subPc' = "top"
  /\ polled' = TRUE
  /\ readsAfterCancel' = ReadReturned
  /\ UNCHANGED <<backend, nextId, kind, memVars, stream, lastDelivered, pel,
                 batch, topicVars, subCur, subCtx, subRes, cancelBeforePoll,
                 histVars, nonQueueVars>>

\* XReadGroup fails with context.Canceled: Subscribe returns it.
RedisReadCanceled ==
  /\ backend = "stream"
  /\ subPc = "read"
  /\ subCtx
  /\ subPc' = "done"
  /\ subRes' = "ctxErr"
  /\ readsAfterCancel' = ReadReturned
  /\ UNCHANGED <<backend, nextId, kind, memVars, stream, lastDelivered, pel,
                 batch, topicVars, subCur, subCtx, polled, cancelBeforePoll,
                 histVars, nonQueueVars>>

\* XReadGroup fails with another error: the loop continues.
RedisReadError ==
  /\ backend = "stream"
  /\ subPc = "read"
  /\ subPc' = "top"
  /\ readsAfterCancel' = ReadReturned
  /\ UNCHANGED <<backend, nextId, kind, memVars, stream, lastDelivered, pel,
                 batch, topicVars, subCur, subCtx, subRes, polled,
                 cancelBeforePoll, histVars, nonQueueVars>>

\* Whether processMessage calls the handler on a message of kind k: the data
\* field is a string and json.Unmarshal accepts it (absent fields are left
\* at their zero values).
Unmarshals(k) == k \in {"valid", "missing"}

\* processMessage, a message the handler is not called on: XAck.
StreamAckOnInvalid == "ack"

\* A faulty processMessage that acknowledges whatever the handler returned.
StreamAckAlways(res) == "ack"

\* processMessage after the handler returned res: XAck on success only.
StreamAckOnHandler(res) == IF res = "ok" THEN "ack" ELSE "none"

\* processMessage on the next message of the reply. res: what the handler
\* returns; ackOk: whether the XAck command, if issued, succeeds.
RedisProcessMessage(res, ackOk) ==
  /\ backend = "stream"
  /\ subPc = "process"
  /\ batch # <<>>
  /\ LET m == Head(batch)
         h == IF Unmarshals(kind[m]) THEN res ELSE "skipped"
         a == IF Unmarshals(kind[m]) THEN StreamAckOnHandler(res)
                                     ELSE StreamAckOnInvalid
     IN /\ log' = Append(log, [id |-> m, handler |-> h, ack |-> a])
        /\ pel' = IF a = "ack" /\ ackOk THEN pel \ {m} ELSE pel
  /\ batch' = Tail(batch)
  /\ subPc' = IF Tail(batch) = <<>> THEN "top" ELSE "process"
  /\ UNCHANGED <<backend, nextId, kind, memVars, stream, lastDelivered,
                 readsAfterCancel, topicVars, subCur, subCtx, subRes, polled,
                 cancelBeforePoll, accepted, nonQueueVars>>

StreamNext ==
  \/ \E req \in {NoReq, nextId}, ok \in BOOLEAN : RedisPublish(req, ok)
  \/ \E k \in {"missing", "badjson", "nodata"} : RedisForeignAdd(k)
  \/ RedisCtxCheck
  \/ RedisReadMsgs
  \/ RedisReadNil
  \/ RedisReadCanceled
  \/ RedisReadError
  \/ \E res \in {"ok", "err"}, ackOk \in BOOLEAN : RedisProcessMessage(res, ackOk)

\* ============================================================= PubSubQueue

\* PubSubQueue.Publish: the nil check, json.Marshal, topic.Publish and
\* result.Get. ok: the service accepted the message and Publish returns nil;
\* otherwise Publish returns an error.
TopicPublish(req, ok) ==
  /\ backend = "topic"
  /\ IF req # NoReq /\ ok
       THEN /\ req = nextId
            /\ nextId <= MaxPublish
            /\ nextId' = nextId + 1
            /\ kind' = [kind EXCEPT ![req] = "valid"]
            /\ topicMsgs' = topicMsgs \cup {req}
            /\ accepted' = Append(accepted, req)
       ELSE UNCHANGED <<nextId, kind, topicMsgs, accepted>>
  /\ UNCHANGED <<backend, memVars, streamVars, inflight, redeliveries, subVars,
                 log, nonQueueVars>>

\* Another publisher of the topic sends data that is no marshalled
\* WorkRequest: the messages the Receive callback guards against.
TopicForeignPublish(k) ==
  /\ backend = "topic"
  /\ nextId <= MaxPublish
  /\ nextId' = nextId + 1
  /\ kind' = [kind EXCEPT ![nextId] = k]
  /\ topicMsgs' = topicMsgs \cup {nextId}
  /\ accepted' = Append(accepted, nextId)
  /\ UNCHANGED <<backend, memVars, streamVars, inflight, redeliveries, subVars,
                 log, nonQueueVars>>

\* The callback has nacked message m.
Nacked(m) == \E i \in DOMAIN log : log[i].id = m /\ log[i].ack = "nack"

\* subscription.Receive hands message m to the callback, on one of its
\* goroutines, while fewer than MaxOutstandingMessages are outstanding.
TopicDeliver(m) ==
  /\ backend = "topic"
  /\ subPc = "receive"
  /\ ~subCtx
  /\ m \in topicMsgs
  /\ Cardinality(inflight) < MaxOutstandingMessages
  /\ Nacked(m) => redeliveries < MaxRedeliveries
  /\ topicMsgs' = topicMsgs \ {m}
  /\ inflight' = inflight \cup {m}
  /\ redeliveries' = IF Nacked(m) THEN redeliveries + 1 ELSE redeliveries
  /\ polled' = TRUE
  /\ UNCHANGED <<backend, nextId, kind, memVars, streamVars, subPc, subCur,
                 subCtx, subRes, cancelBeforePoll, histVars, nonQueueVars>>

\* The callback, data json.Unmarshal refuses: msg.Nack().
TopicAckOnInvalid == "nack"

\* The callback after the handler returned res: Ack on success, else Nack.
TopicAckOnHandler(res) == IF res = "ok" THEN "ack" ELSE "nack"

\* The Receive callback on message m runs to its end. A nacked message is
\* held for redelivery, an acked one is gone.
TopicCallback(m, res) ==
  /\ backend = "topic"
  /\ m \in inflight
  /\ LET h == IF Unmarshals(kind[m]) THEN res ELSE "skipped"
         a == IF Unmarshals(kind[m]) THEN TopicAckOnHandler(res)
                                     ELSE TopicAckOnInvalid
     IN /\ log' = Append(log, [id |-> m, handler |-> h, ack |-> a])
        /\ topicMsgs' = IF a = "nack" THEN topicMsgs \cup {m} ELSE topicMsgs
  /\ inflight' = inflight \ {m}
  /\ UNCHANGED <<backend, nextId, kind, memVars, streamVars, redeliveries,
                 subVars, accepted, nonQueueVars>>

\* ctx is done and the outstanding callbacks have returned: Receive returns
\* nil, and so does Subscribe.
TopicReceiveReturn ==
  /\ backend = "topic"
  /\ subPc = "receive"
  /\ subCtx
  /\ inflight = {}
  /\ subPc' = "done"
  /\ subRes' = "nil"
  /\ UNCHANGED <<backend, nextId, kind, memVars, streamVars, topicVars,
                 subCur, subCtx, polled, cancelBeforePoll, histVars,
                 nonQueueVars>>

TopicNext ==
  \/ \E req \in {NoReq, nextId}, ok \in BOOLEAN : TopicPublish(req, ok)
  \/ \E k \in {"missing", "badjson"} : TopicForeignPublish(k)
  \/ \E m \in Ids : TopicDeliver(m)
  \/ \E m \in Ids, res \in {"ok", "err"} : TopicCallback(m, res)
  \/ TopicReceiveReturn

\* ------------------------------------------------------------ the queue run
Next ==
  \/ MemNext
  \/ StreamNext
  \/ TopicNext
  \/ \E h \in {"nil", "fn"} : SubscribeCall(h)
  \/ CancelSubscribe

Spec == Init /\ [][Next]_vars

\* The steps of the subscriber's own goroutine that are taken once they can
\* be: a called Subscribe starts, a ready channel receive proceeds, a handler
\* call returns, the loop head runs, a blocking read with nothing to read
\* returns when its wait is over, Receive returns once it has stopped.
SubscriberStep ==
  \/ SubscribeCall("fn")
  \/ SubRecv
  \/ SubChanClosed
  \/ \E res \in {"ok", "err"} : SubHandler(res)
  \/ RedisCtxCheck
  \/ RedisReadNil
  \/ \E res \in {"ok", "err"}, ackOk \in BOOLEAN : RedisProcessMessage(res, ackOk)
  \/ TopicReceiveReturn

\* The steps that may be passed over while another is taken, but not for
\* ever: select chooses uniformly among its ready cases, so the ctx.Done()
\* case is taken in the end; entries waiting in the stream are read in the
\* end although single reads may fail.
SubscriberChoice ==
  \/ SubCtxDone
  \/ RedisReadMsgs

\* Publish's select proceeds once one of its cases is ready.
PublishSelect(p) == PublishSend(p) \/ PublishCtxDone(p)

\* The topic service hands over each message it holds, and each callback
\* returns.
TopicStep(m) == TopicDeliver(m) \/ \E res \in {"ok", "err"} : TopicCallback(m, res)

\* Cancellation, Close and new Publish calls are the environment's choice
\* and get no fairness.
Fairness ==
  /\ WF_vars(SubscriberStep)
  /\ SF_vars(SubscriberChoice)
  /\ \A p \in Publishers : WF_vars(PublishSelect(p))
  /\ \A m \in Ids : WF_vars(TopicStep(m))

FairSpec == Spec /\ Fairness

\* ======================================================= webhook.ValidateHMAC
\* ------------------------------------------------- crypto/sha256, crypto/hmac
\* A byte is a number in 0..255, a byte string a sequence of bytes. A 32-bit
\* word is a pair <<high, low>> of 16-bit halves, so that no intermediate
\* value leaves the range of 32-bit signed integers.

RECURSIVE BitXor(_, _, _)
BitXor(a, b, n) ==
  IF n = 0 THEN 0
  ELSE 2 * BitXor(a \div 2, b \div 2, n - 1) + ((a + b) % 2)

RECURSIVE BitAnd(_, _, _)
BitAnd(a, b, n) ==
  IF n = 0 THEN 0
  ELSE 2 * BitAnd(a \div 2, b \div 2, n - 1) + ((a % 2) * (b % 2))

\* Tables of the two operations on 4-bit operands, as sequences: the entry
\* for operands a and b is at index 1 + 16 * a + b.
Xor4 == SubSeq([i \in 1..256 |-> BitXor((i - 1) \div 16, (i - 1) % 16, 4)], 1, 256)
And4 == SubSeq([i \in 1..256 |-> BitAnd((i - 1) \div 16, (i - 1) % 16, 4)], 1, 256)

Nibble(a, k) == (a \div 16^k) % 16
Xor16(a, b) ==
  4096 * Xor4[1 + 16 * Nibble(a, 3) + Nibble(b, 3)]
    + 256 * Xor4[1 + 16 * Nibble(a, 2) + Nibble(b, 2)]
    + 16 * Xor4[1 + 16 * Nibble(a, 1) + Nibble(b, 1)]
    + Xor4[1 + 16 * Nibble(a, 0) + Nibble(b, 0)]
And16(a, b) ==
  4096 * And4[1 + 16 * Nibble(a, 3) + Nibble(b, 3)]
    + 256 * And4[1 + 16 * Nibble(a, 2) + Nibble(b, 2)]
    + 16 * And4[1 + 16 * Nibble(a, 1) + Nibble(b, 1)]
    + And4[1 + 16 * Nibble(a, 0) + Nibble(b, 0)]

WXor(x, y) == <<Xor16(x[1], y[1]), Xor16(x[2], y[2])>>
WAnd(x, y) == <<And16(x[1], y[1]), And16(x[2], y[2])>>
WNot(x) == <<65535 - x[1], 65535 - x[2]>>
\* Addition modulo 2^32.
WAdd(x, y) ==
  LET lo == x[2] + y[2]
      hi == x[1] + y[1] + (lo \div 65536)
  IN <<hi % 65536, lo % 65536>>

\* Rotation and shift to the right by n bits, 0 < n < 16.
RotrSmall(x, n) ==
  <<(x[1] \div 2^n) + (x[2] % 2^n) * 2^(16 - n),
    (x[2] \div 2^n) + (x[1] % 2^n) * 2^(16 - n)>>
Rotr(x, n) ==
  IF n < 16 THEN RotrSmall(x, n)
  ELSE IF n = 16 THEN <<x[2], x[1]>>
  ELSE RotrSmall(<<x[2], x[1]>>, n - 16)
Shr(x, n) ==
  <<x[1] \div 2^n, (x[2] \div 2^n) + (x[1] % 2^n) * 2^(16 - n)>>

Ch(x, y, z) == WXor(WAnd(x, y), WAnd(WNot(x), z))
Maj(x, y, z) == WXor(WXor(WAnd(x, y), WAnd(x, z)), WAnd(y, z))
BigSigma0(x) == WXor(WXor(Rotr(x, 2), Rotr(x, 13)), Rotr(x, 22))
BigSigma1(x) == WXor(WXor(Rotr(x, 6), Rotr(x, 11)), Rotr(x, 25))
SmallSigma0(x) == WXor(WXor(Rotr(x, 7), Rotr(x, 18)), Shr(x, 3))
SmallSigma1(x) == WXor(WXor(Rotr(x, 17), Rotr(x, 19)), Shr(x, 10))

\* The round constants and the initial hash value of SHA-256.
RoundK ==
  <<<<17034, 12184>>, <<28983, 17553>>, <<46528, 64463>>, <<59829, 56229>>,
    <<14678, 49755>>, <<23025, 4593>>, <<37439, 33444>>, <<43804, 24277>>,
    <<55303, 43672>>, <<4739, 23297>>, <<9265, 34238>>, <<21772, 32195>>,
    <<29374, 23924>>, <<32990, 45566>>, <<39900, 1703>>, <<49563, 61812>>,
    <<58523, 27073>>, <<61374, 18310>>, <<4033, 40390>>, <<9228, 41420>>,
    <<11753, 11375>>, <<19060, 33962>>, <<23728, 43484>>, <<30457, 35034>>,
    <<38974, 20818>>, <<43057, 50797>>, <<45059, 10184>>, <<48985, 32711>>,
    <<50912, 3059>>, <<54695, 37191>>, <<1738, 25425>>, <<5161, 10599>>,
    <<10167, 2693>>, <<11803, 8504>>, <<19756, 28156>>, <<21304, 3347>>,
    <<25866, 29524>>, <<30314, 2747>>, <<33218, 51502>>, <<37490, 11397>>,
    <<41663, 59553>>, <<43034, 26187>>, <<49739, 35696>>, <<51052, 20899>>,
    <<53650, 59417>>, <<54937, 1572>>, <<62478, 13701>>, <<4202, 41072>>,
    <<6564, 49430>>, <<7735, 27656>>, <<10056, 30540>>, <<13488, 48309>>,
    <<14620, 3251>>, <<20184, 43594>>, <<23452, 51791>>, <<26670, 28659>>,
    <<29839, 33518>>, <<30885, 25455>>, <<33992, 30740>>, <<36039, 520>>,
    <<37054, 65530>>, <<42064, 27883>>, <<48889, 41975>>, <<50801, 30962>>>>
InitH ==
  <<<<27145, 58983>>, <<47975, 44677>>, <<15470, 62322>>, <<42319, 62778>>,
    <<20750, 21119>>, <<39685, 26764>>, <<8067, 55723>>, <<23520, 52505>>>>

\* The message schedule: 16 words of the block extended to 64.
RECURSIVE Schedule(_)
Schedule(w) ==
  IF Len(w) = 64 THEN w
  ELSE LET t == Len(w) + 1
       IN Schedule(Append(w,
            WAdd(WAdd(SmallSigma1(w[t - 2]), w[t - 7]),
                 WAdd(SmallSigma0(w[t - 15]), w[t - 16]))))

\* The 64 rounds on the loop state st = <<t, v>>: t the round to do next,
\* v = <<a, b, c, d, e, f, g, h>> the working variables.
RECURSIVE Rounds(_, _)
Rounds(st, w) ==
  IF st[1] > 64 THEN st[2]
  ELSE LET t == st[1]
           v == st[2]
           t1 == WAdd(WAdd(WAdd(v[8], BigSigma1(v[5])),
                           WAdd(Ch(v[5], v[6], v[7]), RoundK[t])), w[t])
           t2 == WAdd(BigSigma0(v[1]), Maj(v[1], v[2], v[3]))
       IN Rounds(<<t + 1, <<WAdd(t1, t2), v[1], v[2], v[3],
                           WAdd(v[4], t1), v[5], v[6], v[7]>>>>, w)

\* The block's 16 big-endian words.
BlockWords(b) ==
  [i \in 1..16 |-> <<256 * b[4 * i - 3] + b[4 * i - 2],
                     256 * b[4 * i - 1] + b[4 * i]>>]

\* One 64-byte block folded into the hash value h.
Compress(h, b) ==
  LET v == Rounds(<<1, h>>, Schedule(BlockWords(b)))
  IN [i \in 1..8 |-> WAdd(h[i], v[i])]

Zeros(n) == [i \in 1..n |-> 0]
\* The message followed by 0x80, zeros up to 56 modulo 64, and its length in
\* bits as 8 big-endian bytes (messages here are shorter than 2^13 bytes).
Padded(msg) ==
  LET bits == 8 * Len(msg)
      fill == (119 - Len(msg)) % 64
  IN msg \o <<128>> \o Zeros(fill) \o Zeros(6) \o <<bits \div 256, bits % 256>>

RECURSIVE Blocks(_, _)
Blocks(h, bytes) ==
  IF bytes = <<>> THEN h
  ELSE Blocks(Compress(h, SubSeq(bytes, 1, 64)), SubSeq(bytes, 65, Len(bytes)))

WordBytes(x) == <<x[1] \div 256, x[1] % 256, x[2] \div 256, x[2] % 256>>
Sum256(msg) ==
  LET h == Blocks(InitH, Padded(msg))
  IN WordBytes(h[1]) \o WordBytes(h[2]) \o WordBytes(h[3]) \o WordBytes(h[4])
       \o WordBytes(h[5]) \o WordBytes(h[6]) \o WordBytes(h[7]) \o WordBytes(h[8])

\* hmac.New(sha256.New, key); Write(msg); Sum(nil).
HmacSha256(key, msg) ==
  LET k0 == IF Len(key) > 64 THEN Sum256(key) ELSE key
      k == k0 \o Zeros(64 - Len(k0))
      ipad == [i \in 1..64 |-> Xor16(k[i], 54)]
      opad == [i \in 1..64 |-> Xor16(k[i], 92)]
  IN Sum256(opad \o Sum256(ipad \o msg))

\* ------------------------------------------------------------- encoding/hex
\* hex.EncodeToString: two digits of "0123456789abcdef" for each byte.
HexDigit(n) == IF n < 10 THEN 48 + n ELSE 87 + n
HexEncode(b) ==
  [i \in 1..(2 * Len(b)) |->
     HexDigit(IF i % 2 = 1 THEN b[(i + 1) \div 2] \div 16 ELSE b[i \div 2] % 16)]

\* fromHexChar: '0'..'9', 'a'..'f' and 'A'..'F' are digits.
IsHexChar(c) == c \in (48..57) \cup (97..102) \cup (65..70)
FromHexChar(c) ==
  IF c \in 48..57 THEN c - 48
  ELSE IF c \in 97..102 THEN c - 87
  ELSE c - 55
\* hex.DecodeString fails on a character that is no digit and on an odd
\* length; otherwise it returns one byte for each two digits.
HexDecodeOk(s) == Len(s) % 2 = 0 /\ \A i \in DOMAIN s : IsHexChar(s[i])
HexDecode(s) ==
  [i \in 1..(Len(s) \div 2) |->
     16 * FromHexChar(s[2 * i - 1]) + FromHexChar(s[2 * i])]

\* ----------------------------------------------------------- the validator
\* "sha256="
SigPrefix == <<115, 104, 97, 50, 53, 54, 61>>
HasPrefix(s, prefix) ==
  Len(s) >= Len(prefix) /\ SubSeq(s, 1, Len(prefix)) = prefix
TrimPrefix(s, prefix) ==
  IF HasPrefix(s, prefix) THEN SubSeq(s, Len(prefix) + 1, Len(s)) ELSE s

\* The inputs: payloads of at most MaxPayloadLen bytes, two secrets ("k" and
\* "s2").
PayloadBytes == {97, 98}
Payloads == UNION {[1..n -> PayloadBytes] : n \in 0..MaxPayloadLen}
Secrets == {<<107>>, <<115, 50>>}

\* The values of HmacSha256 on the secrets and on the payloads of up to
\* three bytes, as a table of <<key, message, MAC>>: the validator's MAC is
\* read from it instead of being computed anew in each state.
MacMemo == {
  <<<<107>>, <<>>,
    <<139, 185, 144, 196, 10, 125, 97, 203, 151, 89, 122, 148, 33, 37, 2, 91,
      229, 10, 200, 190, 183, 68, 54, 227, 115, 91, 152, 137, 58, 127, 102, 32>>>>,
  <<<<107>>, <<97>>,
    <<120, 218, 145, 81, 30, 103, 85, 135, 245, 185, 223, 120, 190, 222, 186, 245,
      86, 13, 162, 171, 184, 129, 98, 238, 135, 93, 205, 247, 68, 149, 29, 158>>>>,
  <<<<107>>, <<98>>,
    <<47, 179, 152, 152, 207, 107, 92, 173, 189, 226, 55, 125, 20, 219, 199, 51,
      28, 170, 240, 130, 93, 89, 16, 109, 9, 13, 238, 183, 133, 170, 163, 137>>>>,
  <<<<107>>, <<97, 97>>,
    <<164, 30, 213, 164, 232, 127, 202, 52, 92, 251, 0, 224, 56, 229, 61, 111,
      252, 171, 197, 167, 151, 173, 126, 143, 56, 157, 7, 5, 84, 186, 202, 205>>>>,
  <<<<107>>, <<97, 98>>,
    <<116, 117, 187, 17, 159, 233, 183, 76, 192, 175, 80, 20, 164, 157, 128, 171,
      35, 189, 26, 200, 41, 135, 231, 105, 108, 220, 36, 34, 136, 101, 68, 54>>>>,
  <<<<107>>, <<98, 97>>,
    <<230, 79, 23, 223, 20, 161, 94, 235, 214, 81, 249, 214, 73, 78, 199, 192,
      164, 128, 63, 82, 175, 84, 134, 37, 164, 52, 47, 47, 155, 54, 14, 57>>>>,
  <<<<107>>, <<98, 98>>,
    <<12, 154, 142, 56, 121, 35, 161, 5, 66, 225, 66, 4, 119, 71, 121, 230,
      101, 251, 107, 95, 5, 236, 114, 255, 178, 229, 8, 171, 194, 83, 160, 43>>>>,
  <<<<107>>, <<97, 97, 97>>,
    <<215, 8, 151, 229, 173, 244, 185, 254, 160, 138, 201, 127, 79, 140, 253, 39,
      145, 161, 43, 108, 179, 144, 112, 164, 129, 48, 30, 242, 21, 27, 113, 122>>>>,
  <<<<107>>, <<97, 97, 98>>,
    <<65, 159, 213, 39, 42, 168, 45, 250, 77, 187, 239, 29, 98, 35, 218, 186,
      232, 248, 103, 226, 185, 101, 181, 242, 100, 99, 221, 212, 195, 123, 30, 97>>>>,
  <<<<107>>, <<97, 98, 97>>,
    <<239, 151, 113, 203, 187, 239, 169, 7, 95, 255, 79, 7, 146, 237, 175, 97,
      187, 197, 72, 64, 203, 197, 185, 134, 239, 109, 133, 152, 166, 226, 52, 29>>>>,
  <<<<107>>, <<97, 98, 98>>,
    <<142, 169, 166, 186, 132, 101, 40, 165, 147, 210, 95, 144, 111, 204, 61, 127,
      169, 167, 8, 93, 134, 102, 239, 110, 52, 83, 205, 180, 78, 10, 143, 201>>>>,
  <<<<107>>, <<98, 97, 97>>,
    <<17, 203, 21, 41, 223, 178, 140, 211, 166, 62, 178, 190, 48, 157, 60, 152,
      215, 114, 204, 96, 63, 183, 211, 66, 48, 198, 35, 113, 160, 220, 190, 233>>>>,
  <<<<107>>, <<98, 97, 98>>,
    <<0, 154, 47, 108, 170, 184, 62, 45, 30, 157, 133, 176, 210, 53, 86, 125,
      172, 238, 11, 253, 178, 205, 98, 172, 23, 47, 13, 79, 106, 186, 84, 215>>>>,
  <<<<107>>, <<98, 98, 97>>,
    <<129, 206, 50, 244, 211, 126, 93, 228, 101, 12, 38, 73, 181, 14, 148, 144,
      146, 248, 136, 8, 218, 10, 164, 58, 245, 133, 26, 112, 102, 231, 43, 11>>>>,
  <<<<107>>, <<98, 98, 98>>,
    <<184, 74, 62, 167, 19, 183, 84, 20, 68, 200, 28, 63, 61, 114, 186, 25,
      241, 92, 217, 87, 71, 117, 124, 240, 59, 129, 122, 165, 22, 131, 96, 114>>>>,
  <<<<115, 50>>, <<>>,
    <<101, 70, 219, 98, 72, 85, 172, 154, 61, 177, 235, 74, 11, 235, 0, 121,
      252, 253, 228, 12, 204, 52, 229, 127, 155, 81, 205, 187, 254, 135, 130, 191>>>>,
  <<<<115, 50>>, <<97>>,
    <<250, 3, 126, 28, 112, 209, 148, 169, 63, 78, 248, 174, 251, 194, 19, 241,
      138, 195, 3, 34, 130, 230, 154, 107, 218, 167, 149, 209, 83, 223, 110, 178>>>>,
  <<<<115, 50>>, <<98>>,
    <<215, 133, 118, 138, 182, 171, 240, 178, 205, 85, 31, 74, 1, 152, 161, 92,
      108, 55, 215, 160, 160, 70, 163, 238, 227, 102, 63, 13, 173, 213, 245, 46>>>>,
  <<<<115, 50>>, <<97, 97>>,
    <<115, 228, 227, 87, 195, 121, 229, 71, 103, 137, 130, 131, 17, 60, 168, 139,
      116, 60, 235, 189, 252, 217, 82, 120, 106, 238, 253, 182, 14, 201, 40, 67>>>>,
  <<<<115, 50>>, <<97, 98>>,
    <<192, 61, 186, 197, 10, 169, 139, 217, 92, 57, 201, 25, 210, 67, 0, 65,
      112, 161, 245, 47, 198, 171, 241, 93, 32, 55, 92, 245, 4, 200, 163, 249>>>>,
  <<<<115, 50>>, <<98, 97>>,
    <<1, 45, 227, 16, 175, 117, 96, 51, 61, 116, 40, 232, 172, 1, 170, 70,
      106, 40, 238, 148, 63, 155, 70, 148, 169, 159, 155, 125, 129, 171, 231, 226>>>>,
  <<<<115, 50>>, <<98, 98>>,
    <<112, 198, 13, 14, 117, 202, 179, 212, 148, 253, 221, 192, 190, 62, 163, 161,
      1, 194, 226, 211, 185, 139, 46, 207, 53, 224, 58, 12, 43, 184, 162, 167>>>>,
  <<<<115, 50>>, <<97, 97, 97>>,
    <<215, 92, 172, 123, 74, 230, 198, 73, 134, 8, 231, 235, 143, 192, 214, 37,
      150, 131, 252, 226, 42, 97, 228, 109, 159, 142, 228, 9, 4, 154, 9, 127>>>>,
  <<<<115, 50>>, <<97, 97, 98>>,
    <<70, 45, 190, 67, 74, 167, 105, 158, 252, 151, 213, 131, 149, 131, 107, 112,
      48, 150, 172, 36, 7, 201, 249, 29, 67, 33, 227, 130, 218, 141, 158, 236>>>>,
  <<<<115, 50>>, <<97, 98, 97>>,
    <<18, 95, 100, 175, 227, 10, 113, 220, 206, 215, 72, 205, 148, 44, 101, 131,
      68, 179, 50, 19, 92, 164, 116, 66, 226, 115, 60, 64, 229, 88, 97, 143>>>>,
  <<<<115, 50>>, <<97, 98, 98>>,
    <<94, 107, 43, 219, 149, 145, 60, 96, 120, 103, 74, 181, 37, 177, 81, 199,
      242, 120, 146, 127, 208, 21, 112, 110, 170, 133, 169, 179, 154, 223, 45, 235>>>>,
  <<<<115, 50>>, <<98, 97, 97>>,
    <<171, 190, 111, 192, 40, 200, 209, 135, 54, 140, 0, 157, 253, 244, 203, 196,
      24, 3, 21, 73, 71, 173, 138, 243, 80, 122, 164, 242, 36, 227, 210, 81>>>>,
  <<<<115, 50>>, <<98, 97, 98>>,
    <<101, 23, 104, 225, 25, 249, 139, 116, 243, 7, 173, 191, 160, 12, 169, 17,
      147, 243, 133, 40, 160, 80, 24, 88, 209, 169, 231, 35, 168, 155, 136, 52>>>>,
  <<<<115, 50>>, <<98, 98, 97>>,
    <<215, 71, 120, 183, 104, 13, 86, 105, 215, 255, 238, 113, 71, 2, 196, 170,
      3, 147, 117, 140, 28, 16, 247, 7, 30, 68, 66, 212, 78, 250, 67, 221>>>>,
  <<<<115, 50>>, <<98, 98, 98>>,
    <<250, 56, 194, 123, 17, 124, 218, 89, 147, 175, 222, 7, 166, 117, 128, 191,
      201, 118, 171, 6, 208, 200, 207, 144, 106, 16, 124, 152, 201, 203, 246, 144>>>>}
\* An entry of the table is the value HmacSha256 computes.
MacMemoExact(e) == HmacSha256(e[1], e[2]) = e[3]
Mac(key, msg) == (CHOOSE e \in MacMemo : e[1] = key /\ e[2] = msg)[3]

\* hmac.Equal: equal lengths and equal bytes.
HmacEqual(a, b) == Len(a) = Len(b) /\ \A i \in DOMAIN a : a[i] = b[i]

ValidateHMAC(payload, signature, secret) ==
  IF signature = <<>> THEN "ErrMissingSignature"
  ELSE IF ~HasPrefix(signature, SigPrefix) THEN "ErrMalformedSignature"
  ELSE LET providedSig == TrimPrefix(signature, SigPrefix)
       IN IF Len(providedSig) = 0 THEN "ErrMalformedSignature"
          ELSE IF ~HexDecodeOk(providedSig) THEN "ErrMalformedSignature"
          ELSE IF ~HmacEqual(Mac(secret, payload), HexDecode(providedSig))
               THEN "ErrInvalidSignature"
          ELSE "nil"

\* The sender's header: "sha256=" and the MAC in lowercase hex.
GenerateSignature(payload, secret) == SigPrefix \o HexEncode(Mac(secret, payload))
\* The same digits with the letters in upper case.
UpperHex(s) == [i \in DOMAIN s |-> IF s[i] \in 97..102 THEN s[i] - 32 ELSE s[i]]

\* The headers a request may carry: the sender's, the sender's in upper
\* case, none, the bare prefix, digits that are no hex, another scheme, and
\* the MAC of another payload.
Headers(payload, secret) ==
  {GenerateSignature(payload, secret),
   SigPrefix \o UpperHex(HexEncode(Mac(secret, payload))),
   <<>>,
   SigPrefix,
   SigPrefix \o <<122, 122>>,
   <<115, 104, 97, 49, 61, 97, 98>>,
   GenerateSignature(<<98>>, secret)}

\* The byte values an altered header byte may take: the hex digits in both
\* cases, their neighbours in the code table, and some others.
HeaderBytes ==
  {47, 48, 49, 57, 58} \cup (64..71) \cup (96..103) \cup {0, 32, 61, 104, 115, 255}

\* The validator is given a request.
HmacInit ==
  /\ QueueInit
  /\ backend = "mem"
  /\ hPayload \in Payloads
  /\ hSecret \in Secrets
  /\ hHeader \in Headers(hPayload, hSecret)
  /\ hOrig = "none" /\ hResult = "none"
  /\ hAltered = [payload |-> hPayload, header |-> hHeader]
  /\ StoreIdle /\ CovIdle /\ PrIdle

Altered == hAltered # [payload |-> hPayload, header |-> hHeader]

\* ValidateHMAC on the request as given.
ValidateOriginal ==
  /\ hOrig = "none"
  /\ hOrig' = ValidateHMAC(hPayload, hHeader, hSecret)
  /\ UNCHANGED <<nonHmacVars, hPayload, hSecret, hHeader, hAltered, hResult>>

\* One byte of the payload is replaced by another value.
AlterPayloadByte ==
  /\ hOrig # "none" /\ ~Altered
  /\ \E i \in DOMAIN hPayload : \E b \in PayloadBytes \ {hPayload[i]} :
       hAltered' = [hAltered EXCEPT !.payload = [hPayload EXCEPT ![i] = b]]
  /\ UNCHANGED <<nonHmacVars, hPayload, hSecret, hHeader, hOrig, hResult>>

\* One byte of the header is replaced by another value.
AlterHeaderByte ==
  /\ hOrig # "none" /\ ~Altered
  /\ \E i \in DOMAIN hHeader : \E b \in HeaderBytes \ {hHeader[i]} :
       hAltered' = [hAltered EXCEPT !.header = [hHeader EXCEPT ![i] = b]]
  /\ UNCHANGED <<nonHmacVars, hPayload, hSecret, hHeader, hOrig, hResult>>

\* ValidateHMAC on the altered request.
ValidateAltered ==
  /\ Altered
  /\ hResult = "none"
  /\ hResult' = ValidateHMAC(hAltered.payload, hAltered.header, hSecret)
  /\ UNCHANGED <<nonHmacVars, hPayload, hSecret, hHeader, hOrig, hAltered>>

HmacNext ==
  \/ ValidateOriginal
  \/ AlterPayloadByte
  \/ AlterHeaderByte
  \/ ValidateAltered

HmacSpec == HmacInit /\ [][HmacNext]_vars

\* ================================================================ Storage
\* MinIOStorage and GCSStorage over one bucket.  A worker makes one call at
\* a time; the bucket applies a write at one instant between the call's
\* start and its return (PutObject of the MinIO client, Writer.Close of the
\* GCS client).

Running(c) == c.pc \notin {"idle", "done"}
PutActive == {w \in Workers : call[w].op = "put" /\ Running(call[w])}
PutActiveOn(key) == {w \in PutActive : call[w].key = key}

ErrResult == [isNil |-> TRUE, bytes |-> <<>>, err |-> "error"]
NilResult == [isNil |-> TRUE, bytes |-> <<>>, err |-> "nil"]
DataResult(bytes) == [isNil |-> FALSE, bytes |-> bytes, err |-> "nil"]

\* A SaveCoverage call of `key` starts: what it does to the other workers'
\* running calls.
Disturbed(c, key) ==
  IF ~Running(c) THEN c
  ELSE IF c.op = "put"
       THEN [c EXCEPT !.overlapped = @ \/ c.key = key]
       ELSE [c EXCEPT !.quiet = FALSE,
                      !.expect.valid = @ /\ c.key # key]

\* SaveCoverage up to the upload: validateCoverageKey, formatObjectPath.
SaveCoverage ==
  /\ nCalls < MaxCalls
  /\ \E w \in Workers : \E key \in CoverageKey : \E data \in Blobs :
       /\ ~Running(call[w])
       /\ IF ValidateCoverageKey(key) # "nil"
          THEN /\ call' = [call EXCEPT ![w] =
                   [NoCall EXCEPT !.op = "put", !.pc = "done", !.key = key,
                                  !.data = data, !.res = ErrResult]]
               /\ finished' = Append(finished,
                   [key |-> key, bytes |-> data, err |-> "error",
                    overlapped |-> FALSE, at |-> 0])
               /\ UNCHANGED settled
          ELSE /\ call' = [v \in Workers |->
                   IF v = w
                   THEN [NoCall EXCEPT !.op = "put", !.pc = "upload",
                           !.key = key, !.path = FormatObjectPath(key),
                           !.data = data,
                           !.overlapped = PutActiveOn(key) # {}]
                   ELSE Disturbed(call[v], key)]
               /\ settled' = [settled EXCEPT ![key].valid = FALSE]
               /\ UNCHANGED finished
  /\ nCalls' = nCalls + 1
  /\ UNCHANGED <<nonStoreVars, sBackend, objects, nApplied>>

\* The bucket replaces the object's content by the uploaded bytes, whole.
StoreObjectAppend(objs, path, data) ==
  [objs EXCEPT ![path] = [exists |-> TRUE, bytes |-> @.bytes \o data]]
StoreObject(objs, path, data) ==
  [objs EXCEPT ![path] = [exists |-> TRUE, bytes |-> data]]

\* The bucket applies the upload of a running SaveCoverage.
PutObject ==
  /\ \E w \in Workers :
       /\ call[w].op = "put" /\ call[w].pc = "upload"
       /\ objects' = StoreObject(objects, call[w].path, call[w].data)
       /\ nApplied' = nApplied + 1
       /\ call' = [call EXCEPT ![w].pc = "applied", ![w].at = nApplied + 1]
  /\ UNCHANGED <<nonStoreVars, sBackend, nCalls, settled, finished>>

\* A SaveCoverage call returns `err`.
SaveCoverageReturns(w, err) ==
  /\ call' = [call EXCEPT ![w].pc = "done",
                          ![w].res = [NoResult EXCEPT !.err = err]]
  /\ finished' = Append(finished,
       [key |-> call[w].key, bytes |-> call[w].data, err |-> err,
        overlapped |-> call[w].overlapped, at |-> call[w].at])
  /\ settled' = IF err = "nil" /\ ~call[w].overlapped
                THEN [settled EXCEPT ![call[w].key] =
                        [valid |-> TRUE, bytes |-> call[w].data]]
                ELSE settled

\* The upload fails before the bucket applied it: SaveCoverage returns the
\* wrapped error.
PutObjectFails ==
  /\ \E w \in Workers :
       /\ call[w].op = "put" /\ call[w].pc = "upload"
       /\ SaveCoverageReturns(w, "error")
  /\ UNCHANGED <<nonStoreVars, sBackend, objects, nCalls, nApplied>>

\* SaveCoverage returns after the bucket applied the upload: nil, or the
\* wrapped error when the reply was lost or ctx ended meanwhile.
SaveCoverageReturn ==
  /\ \E w \in Workers : \E err \in {"nil", "error"} :
       /\ call[w].op = "put" /\ call[w].pc = "applied"
       /\ SaveCoverageReturns(w, err)
  /\ UNCHANGED <<nonStoreVars, sBackend, objects, nCalls, nApplied>>

\* GetCoverage up to the download: validateCoverageKey, formatObjectPath.
GetCoverage ==
  /\ nCalls < MaxCalls
  /\ \E w \in Workers : \E key \in CoverageKey :
       /\ ~Running(call[w])
       /\ call' = [call EXCEPT ![w] =
            IF ValidateCoverageKey(key) # "nil"
            THEN [NoCall EXCEPT !.op = "get", !.pc = "done", !.key = key,
                                !.res = ErrResult]
            ELSE [NoCall EXCEPT !.op = "get", !.pc = "read", !.key = key,
                    !.path = FormatObjectPath(key),
                    !.expect = settled[key],
                    !.quiet = PutActive = {},
                    !.seen = Len(finished)]]
  /\ nCalls' = nCalls + 1
  /\ UNCHANGED <<nonStoreVars, sBackend, objects, settled, finished, nApplied>>

\* What the backend does with a download: "none" serves it, "open" fails
\* the request (GetObject / NewReader), "read" fails the transfer
\* (io.ReadAll); each failure is something other than a missing object.
Faults == {"none", "open", "read"}

\* errors.As(err, &minioErr) && minioErr.Code == "NoSuchKey"
IsNoSuchKeyNever(err) == FALSE
IsNoSuchKey(err) == err = "NoSuchKey"

\* MinIOStorage.GetCoverage from GetObject on.  GetObject sends nothing;
\* a missing object shows as the NoSuchKey error of the first read.
MinIOGetCoverage(obj, fault) ==
  IF fault = "open" THEN ErrResult
  ELSE LET err == IF fault = "read" THEN "Other"
                  ELSE IF ~obj.exists THEN "NoSuchKey"
                  ELSE "nil"
       IN  IF err # "nil"
           THEN IF IsNoSuchKey(err) THEN NilResult ELSE ErrResult
           ELSE DataResult(obj.bytes)

\* GCSStorage.GetCoverage from NewReader on.  NewReader fetches the object;
\* a missing object shows as its ErrObjectNotExist.
GCSGetCoverage(obj, fault) ==
  LET err == IF fault = "open" THEN "Other"
             ELSE IF ~obj.exists THEN "ErrObjectNotExist"
             ELSE "nil"
  IN  IF err # "nil"
      THEN IF err = "ErrObjectNotExist" THEN NilResult ELSE ErrResult
      ELSE IF fault = "read" THEN ErrResult
      ELSE DataResult(obj.bytes)

\* What the backend did with the download.  The GCS client learns at
\* NewReader that the object is missing, so no transfer follows that could
\* fail; the MinIO client learns it from the transfer.
Outcome(b, obj, fault) ==
  IF fault = "open" THEN "ioerror"
  ELSE IF b = "gcs" /\ ~obj.exists THEN "notfound"
  ELSE IF fault = "read" THEN "ioerror"
  ELSE IF obj.exists THEN "found" ELSE "notfound"

\* The download of a running GetCoverage, and its return.
GetCoverageRead ==
  /\ \E w \in Workers : \E fault \in Faults :
       /\ call[w].op = "get" /\ call[w].pc = "read"
       /\ LET obj == objects[call[w].path]
          IN  call' = [call EXCEPT
                ![w].pc = "done",
                ![w].outcome = Outcome(sBackend, obj, fault),
                ![w].res = IF sBackend = "minio"
                           THEN MinIOGetCoverage(obj, fault)
                           ELSE GCSGetCoverage(obj, fault)]
  /\ UNCHANGED <<nonStoreVars, sBackend, objects, nCalls, settled, finished,
                 nApplied>>

StoreInit ==
  /\ QueueInit /\ backend = "mem"
  /\ HmacIdle
  /\ sBackend \in StorageBackends
  /\ StoreEmpty
  /\ CovIdle /\ PrIdle

StoreNext ==
  \/ SaveCoverage
  \/ PutObject
  \/ PutObjectFails
  \/ SaveCoverageReturn
  \/ GetCoverage
  \/ GetCoverageRead

StoreSpec == StoreInit /\ [][StoreNext]_vars

\* ========================================================== MergeProfiles
\* merger.go.  A profile is [FileName, Mode, Blocks], a block
\* [StartLine, StartCol, EndLine, EndCol, NumStmt, Count].

MaxMergeProfiles == 3   \* profiles in A and B together
MaxMergeBlocks == 3     \* blocks in A and B together

Modes == {"set", "count"}
\* The file names, in the order of Go's string comparison.
FileNames == <<"a.go", "b.go">>
FileRank(f) == CHOOSE i \in DOMAIN FileNames : FileNames[i] = f

Block(sl, sc, el, ec, n, c) ==
  [StartLine |-> sl, StartCol |-> sc, EndLine |-> el, EndCol |-> ec,
   NumStmt |-> n, Count |-> c]

\* Two counts of one block, a block that starts earlier, and a second
\* block with that start.
BlockPool ==
  {Block(2, 1, 2, 9, 1, 0), Block(2, 1, 2, 9, 1, 1),
   Block(1, 1, 1, 9, 1, 1), Block(1, 1, 3, 9, 2, 1)}
BlockSeqs == UNION {[1..n -> BlockPool] : n \in 0..MaxMergeBlocks}

\* The less function of the sort.Slice calls: by StartLine, then StartCol.
Less(a, b) ==
  IF a.StartLine # b.StartLine THEN a.StartLine < b.StartLine
  ELSE a.StartCol < b.StartCol

\* sort.Slice on a slice of at most 12 elements is an insertion sort: each
\* element moves left past the elements it is less than.
RECURSIVE InsertByStart(_, _)
InsertByStart(s, b) ==
  IF s = <<>> THEN <<b>>
  ELSE IF Less(b, s[Len(s)])
       THEN Append(InsertByStart(SubSeq(s, 1, Len(s) - 1), b), s[Len(s)])
       ELSE Append(s, b)

RECURSIVE SortByStart(_)
SortByStart(s) ==
  IF s = <<>> THEN <<>>
  ELSE InsertByStart(SortByStart(SubSeq(s, 1, Len(s) - 1)), s[Len(s)])

mergeCountFirst(mode, a, b) == a
mergeCountSum(mode, a, b) == a + b
mergeCount(mode, a, b) ==
  IF mode = "set" THEN (IF a > b THEN a ELSE b)
  ELSE a + b

makeBlockKey(block) ==
  <<block.StartLine, block.StartCol, block.EndLine, block.EndCol,
    block.NumStmt>>

copyProfile(p) ==
  [FileName |-> p.FileName, Mode |-> p.Mode, Blocks |-> p.Blocks]

\* allBlocks: the blocks of the profiles, appended in order.
RECURSIVE AllBlocks(_)
AllBlocks(profiles) ==
  IF profiles = <<>> THEN <<>>
  ELSE Head(profiles).Blocks \o AllBlocks(Tail(profiles))

\* blockMap after the loop over the blocks not yet seen, `m` so far: the
\* first block of each key with the counts of the later ones merged in.
RECURSIVE BlockMap(_, _, _)
BlockMap(mode, blocks, m) ==
  IF blocks = <<>> THEN m
  ELSE LET block == Head(blocks)
           key == makeBlockKey(block)
       IN  BlockMap(mode, Tail(blocks),
             IF key \in DOMAIN m
             THEN [m EXCEPT ![key].Count = mergeCount(mode, @, block.Count)]
             ELSE [k \in DOMAIN m \cup {key} |->
                     IF k = key THEN block ELSE m[k]])

\* The orders in which a range over a map can visit its keys.
Orders(S) ==
  {s \in [1..Cardinality(S) -> S] : \A i, j \in DOMAIN s : i # j => s[i] # s[j]}

\* mergeFileProfiles: every profile it can return (the range over blockMap
\* visits the blocks in any order, and the sort keeps that order for blocks
\* with the same start).
mergeFileProfiles(fileName, mode, profiles) ==
  LET allBlocks == AllBlocks(profiles)
  IN  IF Len(profiles) = 1
      THEN {[FileName |-> fileName, Mode |-> mode, Blocks |-> allBlocks]}
      ELSE LET blockMap == BlockMap(mode, allBlocks, [k \in {} |-> Block(0, 0, 0, 0, 0, 0)])
           IN  {[FileName |-> fileName, Mode |-> mode,
                 Blocks |-> SortByStart([i \in DOMAIN o |-> blockMap[o[i]]])] :
                  o \in Orders(DOMAIN blockMap)}

\* The results for the files of `files` (ascending), one profile per file.
RECURSIVE MergedFiles(_, _, _)
MergedFiles(files, mode, profiles) ==
  IF files = <<>> THEN {<<>>}
  ELSE {<<m>> \o rest :
          m \in mergeFileProfiles(Head(files), mode,
                  SelectSeq(profiles, LAMBDA p : p.FileName = Head(files))),
          rest \in MergedFiles(Tail(files), mode, profiles)}

\* MergeProfiles: every result it can return.
MergeProfiles(profiles) ==
  IF Len(profiles) = 0
  THEN {[err |-> "NoProfiles", profiles |-> <<>>]}
  ELSE IF Len(profiles) = 1
  THEN {[err |-> "nil",
         profiles |-> <<[copyProfile(profiles[1]) EXCEPT
                           !.Blocks = SortByStart(@)]>>]}
  ELSE LET mode == profiles[1].Mode
           fileMap == {profiles[i].FileName : i \in DOMAIN profiles}
           files == SelectSeq(FileNames, LAMBDA f : f \in fileMap)
       IN  IF \E i \in DOMAIN profiles : profiles[i].Mode # mode
           THEN {[err |-> "ModeMismatch", profiles |-> <<>>]}
           ELSE {[err |-> "nil", profiles |-> ps] :
                   ps \in MergedFiles(files, mode, profiles)}

\* The profile sequences A and B share one mode.
MergeInit ==
  /\ QueueInit /\ backend = "mem"
  /\ HmacIdle /\ StoreIdle /\ PrIdle
  /\ \E mode \in Modes : \E n \in 2..MaxMergeProfiles :
     \E all \in BlockSeqs : \E fs \in [1..n -> Range(FileNames)] :
     \E cuts \in [0..n -> 0..Len(all)] : \E k \in 1..(n - 1) :
       /\ cuts[0] = 0 /\ cuts[n] = Len(all)
       /\ \A i \in 1..n : cuts[i - 1] <= cuts[i]
       /\ LET profs == [i \in 1..n |->
                [FileName |-> fs[i], Mode |-> mode,
                 Blocks |-> SubSeq(all, cuts[i - 1] + 1, cuts[i])]]
          IN  mergeIn = [mode |-> mode, A |-> SubSeq(profs, 1, k),
                         B |-> SubSeq(profs, k + 1, n)]
  /\ mergeOut = [ab |-> NoMerge, ba |-> NoMerge, a |-> NoMerge,
                 assoc |-> NoMerge, pp |-> NoMerge]
  /\ parseIn = <<>>
  /\ parseOut = [first |-> NoParse, text |-> <<>>, second |-> NoParse]
  /\ matchIn = [profile |-> <<>>, diffs |-> {}]
  /\ matchOut = NoMatch

Called(r) == r.err # "none"

\* merge([A, B])
MergeAB ==
  /\ ~Called(mergeOut.ab)
  /\ \E r \in MergeProfiles(mergeIn.A \o mergeIn.B) :
       mergeOut' = [mergeOut EXCEPT !.ab = r]
  /\ UNCHANGED <<nonCovVars, mergeIn, parseVars, matchVars>>

\* merge([B, A])
MergeBA ==
  /\ Called(mergeOut.ab) /\ ~Called(mergeOut.ba)
  /\ \E r \in MergeProfiles(mergeIn.B \o mergeIn.A) :
       mergeOut' = [mergeOut EXCEPT !.ba = r]
  /\ UNCHANGED <<nonCovVars, mergeIn, parseVars, matchVars>>

\* merge([A])
MergeA ==
  /\ Called(mergeOut.ba) /\ ~Called(mergeOut.a)
  /\ \E r \in MergeProfiles(mergeIn.A) :
       mergeOut' = [mergeOut EXCEPT !.a = r]
  /\ UNCHANGED <<nonCovVars, mergeIn, parseVars, matchVars>>

\* merge([merge([A]), B])
MergeAssoc ==
  /\ mergeOut.a.err = "nil" /\ ~Called(mergeOut.assoc)
  /\ \E r \in MergeProfiles(mergeOut.a.profiles \o mergeIn.B) :
       mergeOut' = [mergeOut EXCEPT !.assoc = r]
  /\ UNCHANGED <<nonCovVars, mergeIn, parseVars, matchVars>>

\* merge([P, P]) for the first profile P of A
MergePP ==
  /\ Called(mergeOut.assoc) /\ ~Called(mergeOut.pp)
  /\ \E r \in MergeProfiles(<<mergeIn.A[1], mergeIn.A[1]>>) :
       mergeOut' = [mergeOut EXCEPT !.pp = r]
  /\ UNCHANGED <<nonCovVars, mergeIn, parseVars, matchVars>>

MergeNext ==
  \/ MergeAB
  \/ MergeBA
  \/ MergeA
  \/ MergeAssoc
  \/ MergePP

MergeSpec == MergeInit /\ [][MergeNext]_vars

\* ======================================= ParseProfiles / SerializeProfiles
\* parser.go.  Coverage data is a sequence of characters; a profile is
\* [FileName, Mode, Blocks] with FileName and Mode sequences of characters.
\* Go's int is modelled with IntBits bits instead of 64: arithmetic wraps
\* and strconv.Atoi refuses what does not fit.

IntBits == 8
MaxLines == 3

MaxInt == 2 ^ (IntBits - 1) - 1
MinInt == 0 - MaxInt - 1
WrapInt(x) == ((x - MinInt) % (2 * (MaxInt + 1))) + MinInt

LF == "\n"
CR == "\r"
Digits == <<"0", "1", "2", "3", "4", "5", "6", "7", "8", "9">>
IsDigit(c) == \E i \in DOMAIN Digits : Digits[i] = c
DigitValue(c) == (CHOOSE i \in DOMAIN Digits : Digits[i] = c) - 1

\* The element of a one-element set: binds a result that is used more than
\* once.
Only(S) == CHOOSE x \in S : TRUE

RECURSIVE NatValue(_)
NatValue(ds) ==
  IF ds = <<>> THEN 0
  ELSE 10 * NatValue(SubSeq(ds, 1, Len(ds) - 1)) + DigitValue(ds[Len(ds)])

\* strconv.Atoi: an optional sign, then decimal digits; the value must fit.
Atoi(s) ==
  LET signed == s # <<>> /\ s[1] \in {"+", "-"}
      ds == IF signed THEN Tail(s) ELSE s
      bad == [ok |-> FALSE, value |-> 0]
  IN  IF ds = <<>> \/ \E i \in DOMAIN ds : ~IsDigit(ds[i]) THEN bad
      ELSE LET v == IF s[1] = "-" THEN 0 - NatValue(ds) ELSE NatValue(ds)
           IN  IF v < MinInt \/ v > MaxInt THEN bad
               ELSE [ok |-> TRUE, value |-> v]

\* The %d verb.
RECURSIVE NatDigits(_)
NatDigits(n) ==
  IF n < 10 THEN <<Digits[n + 1]>>
  ELSE Append(NatDigits(n \div 10), Digits[(n % 10) + 1])
Itoa(n) == IF n < 0 THEN <<"-">> \o NatDigits(0 - n) ELSE NatDigits(n)

\* The | operator on two non-negative ints.
RECURSIVE BitOr(_, _)
BitOr(a, b) ==
  IF a = 0 THEN b
  ELSE IF b = 0 THEN a
  ELSE (IF a % 2 = 1 \/ b % 2 = 1 THEN 1 ELSE 0)
         + 2 * BitOr(a \div 2, b \div 2)

DropCR(line) ==
  IF line # <<>> /\ line[Len(line)] = CR
  THEN SubSeq(line, 1, Len(line) - 1) ELSE line

\* bufio.Scanner with ScanLines: the lines of `data` after the line `cur`
\* being read, without their end-of-line markers.
RECURSIVE ScanLines(_, _)
ScanLines(data, cur) ==
  LET ends == {i \in DOMAIN data : data[i] = LF}
  IN  IF data = <<>> THEN (IF cur = <<>> THEN <<>> ELSE <<DropCR(cur)>>)
      ELSE IF ends = {} THEN <<DropCR(cur \o data)>>
      ELSE Only({<<DropCR(cur \o SubSeq(data, 1, i - 1))>>
                   \o ScanLines(SubSeq(data, i + 1, Len(data)), <<>>) :
                 i \in {CHOOSE e \in ends : \A f \in ends : e <= f}})

\* cover.seekBack: the number between the last `sep` among the first `end`
\* characters of the line and position `end`; negative numbers are refused.
seekBack(l, sep, end) ==
  LET idx == {i \in 1..end : l[i] = sep}
      bad == [ok |-> FALSE, value |-> 0, end |-> 0]
  IN  IF idx = {} THEN bad
      ELSE LET start == CHOOSE i \in idx : \A j \in idx : j <= i
               n == Atoi(SubSeq(l, start + 1, end))
           IN  IF ~n.ok \/ n.value < 0 THEN bad
               ELSE [ok |-> TRUE, value |-> n.value, end |-> start - 1]

\* The separators before Count, NumStmt, EndCol, EndLine, StartCol and
\* StartLine, in the order parseLine seeks them.
FieldSeps == <<" ", " ", ".", ",", ".", ":">>

\* The seekBack calls of parseLine for the separators still to find, with
\* the numbers found so far.  Each call's result is bound once.
RECURSIVE SeekFields(_, _, _, _)
SeekFields(l, seps, end, found) ==
  IF seps = <<>> THEN [ok |-> TRUE, end |-> end, found |-> found]
  ELSE Only({IF ~r.ok THEN [ok |-> FALSE, end |-> 0, found |-> <<>>]
             ELSE SeekFields(l, Tail(seps), r.end, Append(found, r.value)) :
             r \in {seekBack(l, Head(seps), end)}})

\* cover.parseLine: "name:startLine.startCol,endLine.endCol numStmt count",
\* read from the end; the name is what is left and may not be empty.
parseLine(l) ==
  Only({IF ~r.ok \/ r.end = 0
        THEN [ok |-> FALSE, fn |-> <<>>, block |-> Block(0, 0, 0, 0, 0, 0)]
        ELSE [ok |-> TRUE, fn |-> SubSeq(l, 1, r.end),
              block |-> Block(r.found[6], r.found[5], r.found[4], r.found[3],
                              r.found[2], r.found[1])] :
        r \in {SeekFields(l, FieldSeps, Len(l), <<>>)}})

ModePrefix == <<"m", "o", "d", "e", ":", " ">>
ModeSet == <<"s", "e", "t">>

\* "Merge samples from the same location": over the sorted blocks still to
\* visit, `acc` the blocks kept so far.
RECURSIVE MergeSamples(_, _, _)
MergeSamples(mode, blocks, acc) ==
  IF blocks = <<>> THEN [ok |-> TRUE, blocks |-> acc]
  ELSE LET b == Head(blocks)
           j == Len(acc)
       IN  IF /\ j > 0
              /\ b.StartLine = acc[j].StartLine /\ b.StartCol = acc[j].StartCol
              /\ b.EndLine = acc[j].EndLine /\ b.EndCol = acc[j].EndCol
           THEN IF b.NumStmt # acc[j].NumStmt
                THEN [ok |-> FALSE, blocks |-> <<>>]
                ELSE MergeSamples(mode, Tail(blocks),
                       [acc EXCEPT ![j].Count =
                          IF mode = ModeSet THEN BitOr(@, b.Count)
                          ELSE WrapInt(@ + b.Count)])
           ELSE MergeSamples(mode, Tail(blocks), Append(acc, b))

\* The byte of a character that occurs in a file name.
ByteOf(c) == IF c = ":" THEN 58 ELSE IF c = "a" THEN 97 ELSE 98

\* Go's < on strings.
RECURSIVE StringLess(_, _)
StringLess(s, t) ==
  IF t = <<>> THEN FALSE
  ELSE IF s = <<>> THEN TRUE
  ELSE IF Head(s) # Head(t) THEN ByteOf(Head(s)) < ByteOf(Head(t))
  ELSE StringLess(Tail(s), Tail(t))

\* sort.Sort(byFileName(profiles)) on profiles of distinct file names.
RECURSIVE ByFileName(_)
ByFileName(names) ==
  IF names = {} THEN <<>>
  ELSE LET first == CHOOSE n \in names :
                      \A m \in names \ {n} : StringLess(n, m)
       IN  <<first>> \o ByFileName(names \ {first})

\* The loop over the lines after the first: parseLine on each.
RECURSIVE ParseLines(_)
ParseLines(lines) ==
  IF lines = <<>> THEN <<>>
  ELSE <<parseLine(Head(lines))>> \o ParseLines(Tail(lines))

\* The blocks of file `fn` in the order of their lines.
RECURSIVE BlocksOf(_, _)
BlocksOf(parsed, fn) ==
  IF parsed = <<>> THEN <<>>
  ELSE (IF Head(parsed).fn = fn THEN <<Head(parsed).block>> ELSE <<>>)
         \o BlocksOf(Tail(parsed), fn)

\* The second loop of ParseProfilesFromReader over the files in `names`:
\* sort each file's blocks by start and merge its samples.
RECURSIVE MergedProfiles(_, _, _)
MergedProfiles(mode, parsed, names) ==
  IF names = <<>> THEN [ok |-> TRUE, profiles |-> <<>>]
  ELSE Only({IF ~m.ok \/ ~rest.ok THEN [ok |-> FALSE, profiles |-> <<>>]
             ELSE [ok |-> TRUE,
                   profiles |-> <<[FileName |-> Head(names), Mode |-> mode,
                                   Blocks |-> m.blocks]>> \o rest.profiles] :
             m \in {MergeSamples(mode,
                      SortByStart(BlocksOf(parsed, Head(names))), <<>>)},
             rest \in {MergedProfiles(mode, parsed, Tail(names))}})

\* The lines after the mode line.
ParseBody(mode, parsed) ==
  IF \E i \in DOMAIN parsed : ~parsed[i].ok
  THEN [err |-> "error", profiles |-> <<>>]
  ELSE Only({IF ~r.ok THEN [err |-> "error", profiles |-> <<>>]
             ELSE [err |-> "nil", profiles |-> r.profiles] :
             r \in {MergedProfiles(mode, parsed,
                      ByFileName({parsed[i].fn : i \in DOMAIN parsed}))}})

\* cover.ParseProfilesFromReader on the scanned lines.
ParseScanned(lines) ==
  IF lines = <<>> THEN [err |-> "nil", profiles |-> <<>>]
  ELSE IF ~HasPrefix(lines[1], ModePrefix) \/ lines[1] = ModePrefix
  THEN [err |-> "error", profiles |-> <<>>]
  ELSE Only({ParseBody(SubSeq(lines[1], Len(ModePrefix) + 1, Len(lines[1])),
                       parsed) :
             parsed \in {ParseLines(Tail(lines))}})

ParseProfilesFromReader(data) ==
  Only({ParseScanned(lines) : lines \in {ScanLines(data, <<>>)}})

ParseProfiles(data) ==
  IF Len(data) = 0 THEN [err |-> "EmptyProfile", profiles |-> <<>>]
  ELSE Only({IF r.err # "nil" THEN [err |-> "MalformedProfile", profiles |-> <<>>]
             ELSE IF Len(r.profiles) = 0
             THEN [err |-> "NoProfiles", profiles |-> <<>>]
             ELSE [err |-> "nil",
                   profiles |-> [i \in DOMAIN r.profiles |->
                     [FileName |-> r.profiles[i].FileName,
                      Mode |-> r.profiles[i].Mode,
                      Blocks |-> r.profiles[i].Blocks]]] :
             r \in {ParseProfilesFromReader(data)}})

\* One line of SerializeProfiles: "%s:%d.%d,%d.%d %d %d\n".
BlockLine(fileName, b) ==
  fileName \o <<":">> \o Itoa(b.StartLine) \o <<".">> \o Itoa(b.StartCol)
    \o <<",">> \o Itoa(b.EndLine) \o <<".">> \o Itoa(b.EndCol)
    \o <<" ">> \o Itoa(b.NumStmt) \o <<" ">> \o Itoa(b.Count) \o <<LF>>

RECURSIVE BlockLines(_, _)
BlockLines(fileName, blocks) ==
  IF blocks = <<>> THEN <<>>
  ELSE BlockLine(fileName, Head(blocks)) \o BlockLines(fileName, Tail(blocks))

RECURSIVE ProfileLines(_)
ProfileLines(profiles) ==
  IF profiles = <<>> THEN <<>>
  ELSE BlockLines(Head(profiles).FileName, Head(profiles).Blocks)
         \o ProfileLines(Tail(profiles))

SerializeProfiles(profiles) ==
  IF Len(profiles) = 0 THEN [err |-> "error", text |-> <<>>]
  ELSE LET mode == IF profiles[1].Mode = <<>> THEN ModeSet
                   ELSE profiles[1].Mode
       IN  [err |-> "nil",
            text |-> ModePrefix \o mode \o <<LF>> \o ProfileLines(profiles)]

\* ---- the coverage data given to the parser

\* A body line from the texts of its fields.
Line(fn, sl, sc, el, ec, n, c) ==
  fn \o <<":">> \o sl \o <<".">> \o sc \o <<",">> \o el \o <<".">> \o ec
     \o <<" ">> \o n \o <<" ">> \o c

ModeLines ==
  {ModePrefix \o ModeSet, ModePrefix \o <<"c", "o", "u", "n", "t">>,
   ModePrefix, ModeSet}

\* Well-formed lines (blocks of one location with several counts, among
\* them the largest int; a block that starts later; a second block with the
\* same start; numbers written with a sign or a leading zero; a second
\* file; a file name with a colon) and malformed ones.
BodyLines ==
  {Line(<<"a">>, <<"2">>, <<"1">>, <<"2">>, <<"9">>, <<"1">>, <<"1">>),
   Line(<<"a">>, <<"1">>, <<"1">>, <<"1">>, <<"9">>, <<"1">>, <<"0">>),
   Line(<<"a">>, <<"1">>, <<"1">>, <<"1">>, <<"9">>, <<"1">>, <<"1">>),
   Line(<<"a">>, <<"1">>, <<"1">>, <<"3">>, <<"9">>, <<"2">>, <<"1">>),
   Line(<<"a">>, <<"1">>, <<"1">>, <<"1">>, <<"9">>, <<"1">>, Itoa(MaxInt)),
   Line(<<"a">>, <<"0", "1">>, <<"1">>, <<"1">>, <<"9">>, <<"+", "1">>, <<"2">>),
   Line(<<"a">>, <<"1">>, <<"1">>, <<"1">>, <<"9">>, <<"2">>, <<"1">>),
   Line(<<"b">>, <<"1">>, <<"1">>, <<"1">>, <<"9">>, <<"1">>, <<"1">>),
   Line(<<"a", ":", "b">>, <<"1">>, <<"1">>, <<"1">>, <<"9">>, <<"1">>, <<"1">>),
   Line(<<"a">>, <<"1">>, <<"1">>, <<"1">>, <<"9">>, <<"1">>, <<"-", "1">>),
   <<"a", ":", "1", ".", "1", ",", "1", ".", "9", " ", "1">>,
   <<>>}

RECURSIVE Join(_, _)
Join(lines, eol) ==
  IF lines = <<>> THEN <<>>
  ELSE IF Len(lines) = 1 THEN lines[1]
  ELSE Head(lines) \o eol \o Join(Tail(lines), eol)

ParseInit ==
  /\ QueueInit /\ backend = "mem"
  /\ HmacIdle /\ StoreIdle /\ PrIdle
  /\ mergeIn = [mode |-> "set", A |-> <<>>, B |-> <<>>]
  /\ mergeOut = [ab |-> NoMerge, ba |-> NoMerge, a |-> NoMerge,
                 assoc |-> NoMerge, pp |-> NoMerge]
  /\ \/ parseIn = <<>>
     \/ \E n \in 0..MaxLines : \E body \in [1..n -> BodyLines] :
        \E modeLine \in ModeLines : \E eol \in {<<LF>>, <<CR, LF>>} :
        \E last \in {<<>>, eol} :
          parseIn = Join(<<modeLine>> \o body, eol) \o last
  /\ parseOut = [first |-> NoParse, text |-> <<>>, second |-> NoParse]
  /\ matchIn = [profile |-> <<>>, diffs |-> {}]
  /\ matchOut = NoMatch

\* ParseProfiles on the data.
ParseFirst ==
  /\ ~Called(parseOut.first)
  /\ parseOut' = [parseOut EXCEPT !.first = ParseProfiles(parseIn)]
  /\ UNCHANGED <<nonCovVars, mergeVars, parseIn, matchVars>>

\* SerializeProfiles on the parsed profiles.
Serialize ==
  /\ parseOut.first.err = "nil" /\ parseOut.text = <<>>
  /\ parseOut' = [parseOut EXCEPT
       !.text = SerializeProfiles(parseOut.first.profiles).text]
  /\ UNCHANGED <<nonCovVars, mergeVars, parseIn, matchVars>>

\* ParseProfiles on the serialised profiles.
ParseSecond ==
  /\ parseOut.text # <<>> /\ ~Called(parseOut.second)
  /\ parseOut' = [parseOut EXCEPT !.second = ParseProfiles(parseOut.text)]
  /\ UNCHANGED <<nonCovVars, mergeVars, parseIn, matchVars>>

ParseNext ==
  \/ ParseFirst
  \/ Serialize
  \/ ParseSecond

ParseSpec == ParseInit /\ [][ParseNext]_vars

\* =================================================== findMatchingDiffFile
\* analysis.go.  A file name is a sequence of characters.

MaxPathLen == 5
MaxDiffFiles == 2

PathChars == {"a", "/"}
Paths == UNION {[1..n -> PathChars] : n \in 1..MaxPathLen}

\* strings.HasSuffix
HasSuffix(s, suffix) ==
  /\ Len(suffix) <= Len(s)
  /\ SubSeq(s, Len(s) - Len(suffix) + 1, Len(s)) = suffix

\* The test of the loop body on one diff file.
SuffixMatch(profileFile, diffFile) ==
  \/ HasSuffix(profileFile, diffFile)
  \/ HasSuffix(profileFile, <<"/">> \o diffFile)

\* findMatchingDiffFile: every result it can return.  `diffs` is the key
\* set of addedLinesByFile; the range over the map visits the keys in any
\* order and the first key that passes the test is returned.
findMatchingDiffFile(profileFile, diffs) ==
  IF profileFile \in diffs
  THEN {[file |-> profileFile, ok |-> TRUE, called |-> TRUE]}
  ELSE LET hits == {d \in diffs : SuffixMatch(profileFile, d)}
       IN  IF hits = {}
           THEN {[file |-> <<>>, ok |-> FALSE, called |-> TRUE]}
           ELSE {[file |-> d, ok |-> TRUE, called |-> TRUE] : d \in hits}

\* A profile and the files of a diff.
MatchInit ==
  /\ QueueInit /\ backend = "mem"
  /\ HmacIdle /\ StoreIdle /\ PrIdle
  /\ mergeIn = [mode |-> "set", A |-> <<>>, B |-> <<>>]
  /\ mergeOut = [ab |-> NoMerge, ba |-> NoMerge, a |-> NoMerge,
                 assoc |-> NoMerge, pp |-> NoMerge]
  /\ parseIn = <<>>
  /\ parseOut = [first |-> NoParse, text |-> <<>>, second |-> NoParse]
  /\ \E profileFile \in Paths : \E d1 \in Paths : \E d2 \in Paths :
     \E n \in 0..MaxDiffFiles :
       matchIn = [profile |-> profileFile,
                  diffs |-> IF n = 0 THEN {} ELSE IF n = 1 THEN {d1}
                            ELSE {d1, d2}]
  /\ matchOut = NoMatch

FindMatchingDiffFile ==
  /\ ~matchOut.called
  /\ matchOut' \in findMatchingDiffFile(matchIn.profile, matchIn.diffs)
  /\ UNCHANGED <<nonCovVars, mergeVars, parseVars, matchIn>>

MatchNext == FindMatchingDiffFile

MatchSpec == MatchInit /\ [][MatchNext]_vars

\* ======================================================== AnalyzeCoverage
\* analysis.go.

MaxAnaProfiles == 2
MaxAnaBlocks == 2
MaxAddedLines == 2
MaxLine == 3

\* The file names of profiles and of diff files.
AnaProfileNames == {<<"a">>, <<"a", "/", "a">>}
AnaDiffFiles == {<<"a">>, <<"a", "a">>}

\* Blocks that share a boundary line, overlap, or lie apart; executed or not.
AnaBlocks ==
  {Block(1, 1, 2, 9, 1, 1), Block(2, 1, 3, 9, 1, 0),
   Block(1, 1, 1, 9, 1, 0), Block(3, 1, 3, 9, 1, 1)}
AnaBlockSeqs == UNION {[1..n -> AnaBlocks] : n \in 0..MaxAnaBlocks}
AnaProfiles ==
  {[FileName |-> f, Mode |-> "set", Blocks |-> b] :
     f \in AnaProfileNames, b \in AnaBlockSeqs}
AddedLineSeqs == UNION {[1..n -> 1..MaxLine] : n \in 0..MaxAddedLines}

\* isLineInstrumented: the loop over the blocks still to look at.
RECURSIVE InstrumentedIn(_, _)
InstrumentedIn(blocks, line) ==
  IF blocks = <<>> THEN FALSE
  ELSE IF line >= Head(blocks).StartLine /\ line <= Head(blocks).EndLine
       THEN TRUE
       ELSE InstrumentedIn(Tail(blocks), line)
isLineInstrumented(profile, line) == InstrumentedIn(profile.Blocks, line)

\* isLineCovered: the loop over the blocks still to look at.
RECURSIVE CoveredInStrict(_, _)
CoveredInStrict(blocks, line) ==
  IF blocks = <<>> THEN FALSE
  ELSE IF /\ line >= Head(blocks).StartLine /\ line < Head(blocks).EndLine
          /\ Head(blocks).Count > 0
       THEN TRUE
       ELSE CoveredInStrict(Tail(blocks), line)
RECURSIVE CoveredIn(_, _)
CoveredIn(blocks, line) ==
  IF blocks = <<>> THEN FALSE
  ELSE IF /\ line >= Head(blocks).StartLine /\ line <= Head(blocks).EndLine
          /\ Head(blocks).Count > 0
       THEN TRUE
       ELSE CoveredIn(Tail(blocks), line)
isLineCovered(profile, line) == CoveredIn(profile.Blocks, line)

\* The body of AnalyzeCoverage's loop over the added lines: what it does
\* with one line.
ClassifyLine(profile, line) ==
  IF ~isLineInstrumented(profile, line) THEN "non-instrumented"
  ELSE IF ~isLineCovered(profile, line) THEN "uncovered"
  ELSE "covered"

LinesOfClass(profile, addedLines, class) ==
  SelectSeq(addedLines, LAMBDA line : ClassifyLine(profile, line) = class)

\* The body of AnalyzeCoverage's loop over the profiles, on a profile that
\* findMatchingDiffFile resolved to diffFile.
AnalyzeProfileAddInstrumented(result, profile, diffFile, addedLines) ==
  LET uncoveredLines == LinesOfClass(profile, addedLines, "uncovered")
      coveredLines == LinesOfClass(profile, addedLines, "covered")
  IN  [called |-> TRUE,
       UncoveredByFile |->
         IF Len(uncoveredLines) > 0
         THEN [f \in DOMAIN result.UncoveredByFile \cup {diffFile} |->
                 IF f = diffFile THEN uncoveredLines
                 ELSE result.UncoveredByFile[f]]
         ELSE result.UncoveredByFile,
       TotalAdded |-> result.TotalAdded + Len(uncoveredLines)
                        + Len(coveredLines),
       TotalUncovered |-> result.TotalUncovered + Len(uncoveredLines),
       covered |-> result.covered + Len(coveredLines),
       instrumented |-> result.instrumented + Len(uncoveredLines)
                          + Len(coveredLines),
       skipped |-> result.skipped
         + Len(LinesOfClass(profile, addedLines, "non-instrumented"))]
AnalyzeProfile(result, profile, diffFile, addedLines) ==
  LET uncoveredLines == LinesOfClass(profile, addedLines, "uncovered")
      coveredLines == LinesOfClass(profile, addedLines, "covered")
  IN  [called |-> TRUE,
       UncoveredByFile |->
         IF Len(uncoveredLines) > 0
         THEN [f \in DOMAIN result.UncoveredByFile \cup {diffFile} |->
                 IF f = diffFile THEN uncoveredLines
                 ELSE result.UncoveredByFile[f]]
         ELSE result.UncoveredByFile,
       TotalAdded |-> result.TotalAdded + Len(addedLines),
       TotalUncovered |-> result.TotalUncovered + Len(uncoveredLines),
       covered |-> result.covered + Len(coveredLines),
       instrumented |-> result.instrumented + Len(uncoveredLines)
                          + Len(coveredLines),
       skipped |-> result.skipped
         + Len(LinesOfClass(profile, addedLines, "non-instrumented"))]

\* AnalyzeCoverage from the profiles still to process, `result` so far:
\* every result it can return (findMatchingDiffFile ranges over a map).
RECURSIVE AnalyzeFrom(_, _, _)
AnalyzeFrom(profiles, added, result) ==
  IF profiles = <<>> THEN {result}
  ELSE UNION {
         IF ~m.ok THEN AnalyzeFrom(Tail(profiles), added, result)
         ELSE AnalyzeFrom(Tail(profiles), added,
                AnalyzeProfile(result, Head(profiles), m.file, added[m.file])) :
         m \in findMatchingDiffFile(Head(profiles).FileName, DOMAIN added)}

AnalyzeCoverage(profiles, added) ==
  AnalyzeFrom(profiles, added, [NoAnalysis EXCEPT !.called = TRUE])

\* Profiles and the added lines of a diff.
AnaInit ==
  /\ QueueInit /\ backend = "mem"
  /\ HmacIdle /\ StoreIdle /\ CovIdle
  /\ \E profiles \in UNION {[1..n -> AnaProfiles] : n \in 0..MaxAnaProfiles} :
     \E files \in SUBSET AnaDiffFiles : \E added \in [files -> AddedLineSeqs] :
       anaIn = [profiles |-> profiles, added |-> added]
  /\ anaOut = NoAnalysis
  /\ annIn = <<>> /\ annOut = NoAnnotations
  /\ diffIn = <<>> /\ diffOut = NoDiff

AnalyzeCoverageCall ==
  /\ ~anaOut.called
  /\ anaOut' \in AnalyzeCoverage(anaIn.profiles, anaIn.added)
  /\ UNCHANGED <<nonPrVars, anaIn, annVars, diffVars>>

AnaNext == AnalyzeCoverageCall

AnaSpec == AnaInit /\ [][AnaNext]_vars

\* ==================================================== GenerateAnnotations
\* github/annotations.go and analysis.go.

MaxUncoveredLines == 3
MaxAnnLine == 4

AnnFiles == {<<"a">>, <<"b">>}
UncoveredLists ==
  UNION {[1..n -> 1..MaxAnnLine] : n \in 1..MaxUncoveredLines}

\* sort.Ints
RECURSIVE InsertInt(_, _)
InsertInt(s, x) ==
  IF s = <<>> THEN <<x>>
  ELSE IF x < s[Len(s)]
       THEN Append(InsertInt(SubSeq(s, 1, Len(s) - 1), x), s[Len(s)])
       ELSE Append(s, x)
SortIntsNot(s) == s
RECURSIVE SortInts(_)
SortInts(s) ==
  IF s = <<>> THEN <<>>
  ELSE InsertInt(SortInts(SubSeq(s, 1, Len(s) - 1)), s[Len(s)])

\* The loop of GroupIntoRanges from index i on, with the ranges closed so
\* far and the open range.
RECURSIVE GroupFrom(_, _, _, _, _)
GroupFrom(lines, i, ranges, rangeStart, rangeEnd) ==
  IF i > Len(lines)
  THEN Append(ranges, [Start |-> rangeStart, End |-> rangeEnd])
  ELSE IF lines[i] = rangeEnd + 1
       THEN GroupFrom(lines, i + 1, ranges, rangeStart, lines[i])
       ELSE GroupFrom(lines, i + 1,
              Append(ranges, [Start |-> rangeStart, End |-> rangeEnd]),
              lines[i], lines[i])

GroupIntoRanges(lines) ==
  IF Len(lines) = 0 THEN <<>>
  ELSE GroupFrom(lines, 2, <<>>, lines[1], lines[1])

SortAndGroupLines(lines) ==
  IF Len(lines) = 0 THEN <<>>
  ELSE GroupIntoRanges(SortInts(lines))

\* The annotation of one range.
Annotation(file, r) ==
  [Path |-> file, StartLine |-> r.Start, EndLine |-> r.End,
   Level |-> "notice",
   Title |-> IF r.Start = r.End THEN "Uncovered line" ELSE "Uncovered lines",
   Message |-> IF r.Start = r.End THEN <<"Line", r.Start>>
               ELSE <<"Lines", r.Start, r.End>>]

\* The loop over the sorted files still to process.
RECURSIVE AnnotationsOf(_, _)
AnnotationsOf(files, uncoveredByFile) ==
  IF files = <<>> THEN <<>>
  ELSE LET ranges == SortAndGroupLines(uncoveredByFile[Head(files)])
       IN  [k \in DOMAIN ranges |-> Annotation(Head(files), ranges[k])]
             \o AnnotationsOf(Tail(files), uncoveredByFile)

\* GetSortedFiles is sort.Strings on the keys.
GenerateAnnotations(uncoveredByFile) ==
  IF DOMAIN uncoveredByFile = {} THEN <<>>
  ELSE AnnotationsOf(ByFileName(DOMAIN uncoveredByFile), uncoveredByFile)

\* An analysis result: files with their uncovered lines, no list empty.
AnnInit ==
  /\ QueueInit /\ backend = "mem"
  /\ HmacIdle /\ StoreIdle /\ CovIdle
  /\ anaIn = [profiles |-> <<>>, added |-> <<>>] /\ anaOut = NoAnalysis
  /\ \E files \in SUBSET AnnFiles : annIn \in [files -> UncoveredLists]
  /\ annOut = NoAnnotations
  /\ diffIn = <<>> /\ diffOut = NoDiff

GenerateAnnotationsCall ==
  /\ ~annOut.called
  /\ annOut' = [called |-> TRUE, annotations |-> GenerateAnnotations(annIn)]
  /\ UNCHANGED <<nonPrVars, anaVars, annIn, diffVars>>

AnnNext == GenerateAnnotationsCall

AnnSpec == AnnInit /\ [][AnnNext]_vars

\* ============================================================== ParseDiff
\* merger.go.  A line is a sequence of characters.

MaxBodyLines == 3
MaxDiffSections == 2

DiffGitPrefix == <<"d", "i", "f", "f", " ", "-", "-", "g", "i", "t", " ", "a", "/">>
NewNameSep == <<" ", "b", "/">>
OldFilePrefix == <<"-", "-", "-", " ", "a", "/">>
NewFilePrefix == <<"+", "+", "+", " ", "b", "/">>
HunkPrefix == <<"@", "@", " ", "-">>
HunkNewSep == <<" ", "+">>
HunkEnd == <<" ", "@", "@">>
BinaryPrefix == <<"B", "i", "n", "a", "r", "y", " ", "f", "i", "l", "e", "s", " ">>
BinarySuffix == <<" ", "d", "i", "f", "f", "e", "r">>
DeletedPrefix == <<"d", "e", "l", "e", "t", "e", "d", " ", "f", "i", "l", "e", " ", "m", "o", "d", "e">>
RenamePrefix == <<"r", "e", "n", "a", "m", "e", " ", "f", "r", "o", "m", " ">>

\* ^diff --git a/(.+) b/(.+)$ : the first group takes as much as it can.
diffHeaderRe(line) ==
  LET rest == TrimPrefix(line, DiffGitPrefix)
      at == {j \in 2..(Len(rest) - 3) :
               SubSeq(rest, j, j + 2) = NewNameSep}
  IN  IF ~HasPrefix(line, DiffGitPrefix) \/ at = {}
      THEN [ok |-> FALSE, old |-> <<>>, new |-> <<>>]
      ELSE LET j == CHOOSE x \in at : \A y \in at : y <= x
           IN  [ok |-> TRUE, old |-> SubSeq(rest, 1, j - 1),
                new |-> SubSeq(rest, j + 3, Len(rest))]

\* ^--- a/(.+)$ and ^\+\+\+ b/(.+)$
oldFileRe(line) ==
  [ok |-> HasPrefix(line, OldFilePrefix) /\ Len(line) > Len(OldFilePrefix),
   name |-> TrimPrefix(line, OldFilePrefix)]
newFileRe(line) ==
  [ok |-> HasPrefix(line, NewFilePrefix) /\ Len(line) > Len(NewFilePrefix),
   name |-> TrimPrefix(line, NewFilePrefix)]

\* ^Binary files .+ differ$, ^deleted file mode, ^rename from (.+)$
binaryFileRe(line) ==
  /\ HasPrefix(line, BinaryPrefix)
  /\ Len(line) > Len(BinaryPrefix) + Len(BinarySuffix)
  /\ SubSeq(line, Len(line) - Len(BinarySuffix) + 1, Len(line)) = BinarySuffix
deletedFileRe(line) == HasPrefix(line, DeletedPrefix)
renamedFileRe(line) ==
  HasPrefix(line, RenamePrefix) /\ Len(line) > Len(RenamePrefix)

\* The end of the digits of `line` that start at position i (i - 1 if none).
RECURSIVE DigitsEnd(_, _)
DigitsEnd(line, i) ==
  IF i <= Len(line) /\ IsDigit(line[i]) THEN DigitsEnd(line, i + 1)
  ELSE i - 1

\* The position after an optional ",digits" at position i.
AfterCount(line, i) ==
  IF i <= Len(line) /\ line[i] = "," /\ DigitsEnd(line, i + 1) > i
  THEN DigitsEnd(line, i + 1) + 1
  ELSE i

\* ^@@ -(\d+)(?:,(\d+))? \+(\d+)(?:,(\d+))? @@ : the third group.
hunkHeaderRe(line) ==
  LET no == [ok |-> FALSE, newStart |-> <<>>]
      oldEnd == DigitsEnd(line, Len(HunkPrefix) + 1)
      sep == AfterCount(line, oldEnd + 1)
      newEnd == DigitsEnd(line, sep + Len(HunkNewSep))
      end == AfterCount(line, newEnd + 1)
  IN  IF ~HasPrefix(line, HunkPrefix) \/ oldEnd = Len(HunkPrefix) THEN no
      ELSE IF SubSeq(line, sep, sep + Len(HunkNewSep) - 1) # HunkNewSep
              \/ newEnd < sep + Len(HunkNewSep)
      THEN no
      ELSE IF SubSeq(line, end, end + Len(HunkEnd) - 1) # HunkEnd THEN no
      ELSE [ok |-> TRUE,
            newStart |-> SubSeq(line, sep + Len(HunkNewSep), newEnd)]

NoFileDiff ==
  [OldName |-> <<>>, NewName |-> <<>>, AddedLines |-> <<>>,
   IsBinary |-> FALSE, IsRenamed |-> FALSE, IsDeleted |-> FALSE]

\* The loop state before the first line.
DiffStart ==
  [err |-> "nil", fileDiffs |-> <<>>, has |-> FALSE, currentDiff |-> NoFileDiff,
   currentLine |-> 0]

\* The switch on line[0].
ContentLine(st, line) ==
  IF line[1] = "+"
  THEN IF ~HasPrefix(line, <<"+", "+", "+">>)
       THEN [st EXCEPT !.currentDiff.AddedLines = Append(@, st.currentLine),
                       !.currentLine = WrapInt(@ + 1)]
       ELSE st
  ELSE IF line[1] = " " THEN [st EXCEPT !.currentLine = WrapInt(@ + 1)]
  ELSE st

\* The body of ParseDiff's loop on one line.
DiffLine(st, line) ==
  IF st.err # "nil" THEN st
  ELSE IF diffHeaderRe(line).ok
  THEN [st EXCEPT
          !.fileDiffs = IF st.has THEN Append(@, st.currentDiff) ELSE @,
          !.has = TRUE,
          !.currentDiff = [NoFileDiff EXCEPT !.OldName = diffHeaderRe(line).old,
                                             !.NewName = diffHeaderRe(line).new],
          !.currentLine = 0]
  ELSE IF ~st.has THEN st
  ELSE IF binaryFileRe(line) THEN [st EXCEPT !.currentDiff.IsBinary = TRUE]
  ELSE IF deletedFileRe(line) THEN [st EXCEPT !.currentDiff.IsDeleted = TRUE]
  ELSE IF renamedFileRe(line) THEN [st EXCEPT !.currentDiff.IsRenamed = TRUE]
  ELSE IF oldFileRe(line).ok
  THEN [st EXCEPT !.currentDiff.OldName = oldFileRe(line).name]
  ELSE IF newFileRe(line).ok
  THEN [st EXCEPT !.currentDiff.NewName = newFileRe(line).name]
  ELSE IF hunkHeaderRe(line).ok
  THEN IF Atoi(hunkHeaderRe(line).newStart).ok
       THEN [st EXCEPT !.currentLine = Atoi(hunkHeaderRe(line).newStart).value]
       ELSE [st EXCEPT !.err = "error"]
  ELSE IF Len(line) = 0 THEN [st EXCEPT !.currentLine = WrapInt(@ + 1)]
  ELSE ContentLine(st, line)

\* The loop over the lines still to read; each step's state is bound once.
RECURSIVE DiffLines(_, _)
DiffLines(lines, st) ==
  IF lines = <<>> THEN st
  ELSE Only({DiffLines(Tail(lines), next) :
             next \in {DiffLine(st, Head(lines))}})

ParseDiff(diffData) ==
  IF Len(diffData) = 0 THEN [called |-> TRUE, err |-> "error", fileDiffs |-> <<>>]
  ELSE Only({IF st.err # "nil"
             THEN [called |-> TRUE, err |-> "error", fileDiffs |-> <<>>]
             ELSE [called |-> TRUE, err |-> "nil",
                   fileDiffs |-> IF st.has
                                 THEN Append(st.fileDiffs, st.currentDiff)
                                 ELSE st.fileDiffs] :
             st \in {DiffLines(ScanLines(diffData, <<>>), DiffStart)}})

\* ---- the diffs given to ParseDiff

\* The body lines of a hunk: the marker that tells the kind of the line,
\* and the line's text.  "blank" is a context line with nothing on it.
BodyKinds == {"+", "-", " ", "\\", "blank"}
BodyLinePool ==
  {[kind |-> "+", text |-> <<"x">>], [kind |-> "+", text |-> <<>>],
   [kind |-> "+", text |-> <<"+", "+", "x">>], [kind |-> "+", text |-> <<"+", "+", " ", "b", "/", "g">>],
   [kind |-> "-", text |-> <<"x">>], [kind |-> "-", text |-> <<"-", "-", " ", "a", "/", "g">>],
   [kind |-> " ", text |-> <<"x">>], [kind |-> "blank", text |-> <<>>],
   [kind |-> "\\", text |-> <<" ", "N", "o", " ", "n", "e", "w", "l", "i", "n", "e">>]}
HunkStarts == {1, 12}
DiffBodies == UNION {[1..n -> BodyLinePool] : n \in 0..MaxBodyLines}
DiffSection == [name : {<<"f">>, <<"g">>}, start : HunkStarts, body : DiffBodies]

BodyText(l) ==
  IF l.kind = "blank" THEN <<>> ELSE <<l.kind>> \o l.text

\* The lines of one file's section: its header and one hunk.
SectionLines(sec) ==
  <<DiffGitPrefix \o sec.name \o NewNameSep \o sec.name,
    <<"i", "n", "d", "e", "x", " ", "1", ".", ".", "2">>,
    OldFilePrefix \o sec.name,
    NewFilePrefix \o sec.name,
    HunkPrefix \o <<"1", ",", "2">> \o HunkNewSep \o Itoa(sec.start)
      \o <<",", "3">> \o HunkEnd>>
    \o [k \in DOMAIN sec.body |-> BodyText(sec.body[k])]

RECURSIVE DiffTextLines(_)
DiffTextLines(sections) ==
  IF sections = <<>> THEN <<>>
  ELSE SectionLines(Head(sections)) \o DiffTextLines(Tail(sections))

DiffData(sections) == Join(DiffTextLines(sections), <<LF>>) \o <<LF>>

\* A diff of one or two files: the second file's hunk has at most one line.
\* The sections after the first: at most one body line, hunk at line 1.
DiffTailSection == {s \in DiffSection : Len(s.body) <= 1 /\ s.start = 1}

DiffInit ==
  /\ QueueInit /\ backend = "mem"
  /\ HmacIdle /\ StoreIdle /\ CovIdle
  /\ anaIn = [profiles |-> <<>>, added |-> <<>>] /\ anaOut = NoAnalysis
  /\ annIn = <<>> /\ annOut = NoAnnotations
  /\ \E n \in 1..MaxDiffSections :
       \E first \in DiffSection :
         \E rest \in [1..(n - 1) -> DiffTailSection] :
           /\ diffIn = <<first>> \o rest
           /\ \A i, j \in DOMAIN diffIn :
                i # j => diffIn[i].name # diffIn[j].name
  /\ diffOut = NoDiff

ParseDiffCall ==
  /\ ~diffOut.called
  /\ diffOut' = ParseDiff(DiffData(diffIn))
  /\ UNCHANGED <<nonPrVars, anaVars, annVars, diffIn>>

DiffNext == ParseDiffCall

DiffSpec == DiffInit /\ [][DiffNext]_vars

\* ============================================================== properties

\* The log entries of deliveries the handler was called on.
HandlerCalled(e) == e.handler # "skipped"
HandlerLog == SelectSeq(log, HandlerCalled)
\* The messages the handler has been called on.
HandledIds == {log[i].id : i \in {j \in DOMAIN log : HandlerCalled(log[j])}}
\* The requests whose Publish call returned success.
PublishedOK == {m \in Range(accepted) : kind[m] = "valid"}
\* How often the handler has been called on m.
HandlerCalls(m) == Cardinality({i \in DOMAIN log : log[i].id = m /\ HandlerCalled(log[i])})

C2_AckIffHandlerOk ==
  backend \in {"stream", "topic"} =>
    \A i \in DOMAIN log :
      HandlerCalled(log[i]) =>
        /\ (log[i].ack = "ack") <=> (log[i].handler = "ok")
        /\ log[i].handler = "err" =>
             /\ log[i].ack = (IF backend = "stream" THEN "none" ELSE "nack")
             /\ backend = "stream" => log[i].id \in pel

C2_Witness ==
  /\ backend = "stream"
  /\ \E i, j \in DOMAIN log :
       /\ log[i].handler = "ok" /\ log[i].ack = "ack"
       /\ log[j].handler = "err" /\ log[j].id \in pel

\* The handler has returned an error on m.
HandlerFailed(m) == \E i \in DOMAIN log : log[i].id = m /\ log[i].handler = "err"

\* C3: in the stream backend a message whose handler returned an error is
\* handed to the handler again while the subscriber keeps running.
C3_Redelivered ==
  \A m \in Ids :
    []((backend = "stream" /\ HandlerFailed(m))
         => <>(HandlerCalls(m) >= 2 \/ subCtx))

\* C4: in the stream and topic backends a delivered message with invalid
\* contents (bad JSON, missing fields) is acknowledged.
C4_InvalidAcked ==
  backend \in {"stream", "topic"} =>
    \A i \in DOMAIN log : kind[log[i].id] # "valid" => log[i].ack = "ack"

C6_FullBufferBlocks ==
  /\ [][\A p \in Publishers :
          pubPc[p] = "select" =>
            /\ (Len(ch) = BufSize /\ ~pubCtx[p]) => pubPc'[p] = "select"
            /\ pubPc'[p] = "idle" =>
                 \/ /\ lastPub'.res = "ok"
                    /\ Len(ch) < BufSize
                    /\ ch' = Append(ch, pubReq[p])
                 \/ /\ lastPub'.res = "cancelled"
                    /\ pubCtx[p]
                    /\ ch' = ch]_vars
  /\ \A p \in Publishers :
       (pubPc[p] = "select" /\ pubCtx[p]) ~> (pubPc[p] # "select")

C6_Witness ==
  /\ lastPub.res = "cancelled"
  /\ Len(ch) = BufSize /\ ~closed

\* C7: in the in-process queue a handler error neither ends the subscription
\* nor causes a retry: no request is handed to the handler twice, after an
\* error Subscribe is back at its select, and the requests still buffered
\* are handed to the handler while the subscription runs.
C7_NoRetryNoStop ==
  /\ [](backend = "mem" =>
          \A i, j \in DOMAIN log : i # j => log[i].id # log[j].id)
  /\ [][(backend = "mem" /\ Len(log') > Len(log)
           /\ log'[Len(log')].handler = "err") => subPc' = "select"]_vars
  /\ \A m \in Ids :
       (/\ backend = "mem"
        /\ \E i \in DOMAIN log : log[i].handler = "err"
        /\ m \in Range(ch))
       ~> (m \in HandledIds \/ subCtx)

C7_Witness ==
  /\ backend = "mem"
  /\ \E i, j \in DOMAIN log : i < j /\ log[i].handler = "err"

\* C8 as stated: once the subscriber's context is cancelled, Subscribe
\* returns the context's error, in every backend.
C8_AsStated == (subPc = "done" /\ subCtx) => subRes = "ctxErr"

\* C8 amended: once the subscriber's context is cancelled Subscribe returns:
\* in the stream backend the context's error, after at most one more return
\* of a blocking read; in the in-process backend without waiting for a
\* message, the context's error or, the queue being closed, nil; in the
\* topic backend nil.
C8_CancelReturns ==
  /\ [](/\ (subPc = "done" /\ subCtx) =>
             CASE backend = "stream" -> subRes = "ctxErr"
               [] backend = "mem" ->
                    subRes = "ctxErr" \/ (subRes = "nil" /\ chClosed)
               [] backend = "topic" -> subRes = "nil"
        /\ readsAfterCancel <= 1
        /\ (backend = "mem" /\ subPc = "select" /\ subCtx) => ENABLED SubCtxDone)
  /\ subCtx ~> (subPc = "done")

C8_Witness ==
  /\ backend = "stream" /\ subPc = "done" /\ subRes = "ctxErr"
  /\ readsAfterCancel = 1 /\ log # <<>>

\* The messages the handler was called on, in the order of the calls.
Delivered == [i \in 1..Len(HandlerLog) |-> HandlerLog[i].id]
\* The accepted messages a handler can be called on, in the order accepted.
HandlerEligible(m) == Unmarshals(kind[m])
Eligible == SelectSeq(accepted, HandlerEligible)
IsPrefix(s, t) == Len(s) <= Len(t) /\ \A i \in 1..Len(s) : s[i] = t[i]

C10_AnyAlterationRejected ==
  (hOrig = "nil" /\ hResult # "none") => hResult # "nil"

\* What the error table gives for a request: an absent header is missing, the
\* lowercase hex of the MAC behind "sha256=" is accepted, a header without
\* the prefix or with an empty or non-hex rest is malformed, any other is
\* invalid.
TableResult(payload, signature, secret) ==
  IF signature = <<>> THEN "ErrMissingSignature"
  ELSE IF signature = GenerateSignature(payload, secret) THEN "nil"
  ELSE IF \/ ~HasPrefix(signature, SigPrefix)
          \/ Len(signature) = Len(SigPrefix)
          \/ ~HexDecodeOk(TrimPrefix(signature, SigPrefix))
       THEN "ErrMalformedSignature"
  ELSE "ErrInvalidSignature"

\* C11: ValidateHMAC accepts exactly the header "sha256=" followed by the
\* lowercase hex of the MAC of the body under the secret; otherwise it
\* returns the missing error for an absent header, the malformed error for a
\* header that is not "sha256=<hex>", and the invalid error when the MACs
\* differ.
C11_ErrorTable ==
  /\ hOrig # "none" => hOrig = TableResult(hPayload, hHeader, hSecret)
  /\ hResult # "none" =>
       hResult = TableResult(hAltered.payload, hAltered.header, hSecret)

\* ---- Storage

\* The GetCoverage calls that have returned without error.
GetDone == {w \in Workers : /\ call[w].op = "get" /\ call[w].pc = "done"
                            /\ call[w].res.err = "nil"}

\* C12: a GetCoverage that follows a SaveCoverage of the same key which
\* returned nil, with no other SaveCoverage of that key running or started
\* in between, returns exactly the bytes that were saved.
C12_GetReturnsPut ==
  \A w \in GetDone :
    call[w].expect.valid =>
      /\ ~call[w].res.isNil
      /\ call[w].res.bytes = call[w].expect.bytes

\* C15: two distinct keys that pass ValidateCoverageKey are never given the
\* same object path by FormatObjectPath.
C15_DistinctPaths ==
  \A v, w \in Workers :
    /\ call[v].op # "idle" /\ call[w].op # "idle"
    /\ ValidateCoverageKey(call[v].key) = "nil"
    /\ ValidateCoverageKey(call[w].key) = "nil"
    /\ call[v].key # call[w].key
    => call[v].path # call[w].path

\* The GetCoverage calls that returned without error and ran when exactly
\* two SaveCoverage calls had been made, both of the key read, both
\* returned nil before the GetCoverage started.
AfterTwoPuts ==
  {w \in GetDone :
     /\ call[w].quiet /\ call[w].seen = 2
     /\ finished[1].key = call[w].key /\ finished[2].key = call[w].key
     /\ finished[1].err = "nil" /\ finished[2].err = "nil"}

\* C13 as stated: after two SaveCoverage calls of one key, in any
\* interleaving, a later GetCoverage returns the bytes of the call that
\* returned last.
C13_AsStated ==
  \A w \in AfterTwoPuts :
    /\ ~call[w].res.isNil
    /\ call[w].res.bytes = finished[2].bytes

\* C13: after two SaveCoverage calls of one key, in any interleaving, a
\* later GetCoverage returns the complete bytes of the call whose write the
\* bucket applied last, which is the call that returned last when the two
\* calls did not overlap; never a mixture and never the other call's bytes.
C13_LastApplied ==
  \A w \in AfterTwoPuts :
    LET last == IF finished[1].at > finished[2].at THEN 1 ELSE 2
    IN  /\ ~call[w].res.isNil
        /\ call[w].res.bytes = finished[last].bytes
        /\ ~finished[2].overlapped => last = 2

C13_Witness ==
  \E w \in AfterTwoPuts :
    /\ finished[1].bytes # finished[2].bytes
    /\ finished[1].at > finished[2].at
    /\ call[w].res.bytes = finished[1].bytes

\* C14: GetCoverage of a key whose object does not exist returns nil data
\* and a nil error, with either backend; when the download fails in any
\* other way GetCoverage returns an error.
C14_NotFoundIsNil ==
  \A w \in Workers :
    call[w].op = "get" /\ call[w].pc = "done" =>
      /\ call[w].outcome = "notfound" => call[w].res = NilResult
      /\ call[w].outcome = "ioerror" => call[w].res = ErrResult
      /\ call[w].outcome = "found" => call[w].res.err = "nil"

C14_Witness ==
  \E v, w \in Workers :
    /\ call[v].op = "get" /\ call[v].pc = "done"
    /\ call[v].outcome = "notfound" /\ call[v].res = NilResult
    /\ call[w].op = "get" /\ call[w].pc = "done"
    /\ call[w].outcome = "ioerror" /\ call[w].res = ErrResult

\* ---- MergeProfiles

\* The two block lists hold the same blocks with the same counts, each as
\* often as the other.
SameBlocks(s, t) ==
  /\ Len(s) = Len(t)
  /\ \A b \in Range(s) \cup Range(t) :
       Cardinality({i \in DOMAIN s : s[i] = b})
         = Cardinality({i \in DOMAIN t : t[i] = b})

\* The two results succeeded and agree up to the order of blocks.
SameModuloOrder(r1, r2) ==
  /\ r1.err = "nil" /\ r2.err = "nil"
  /\ Len(r1.profiles) = Len(r2.profiles)
  /\ \A i \in DOMAIN r1.profiles :
       /\ r1.profiles[i].FileName = r2.profiles[i].FileName
       /\ r1.profiles[i].Mode = r2.profiles[i].Mode
       /\ SameBlocks(r1.profiles[i].Blocks, r2.profiles[i].Blocks)

\* C16: for profile sequences A and B of one mode, merge([A,B]),
\* merge([B,A]) and merge([merge([A]),B]) contain the same files with the
\* same blocks and the same counts.
C16_CommutativeAssociative ==
  /\ Called(mergeOut.ba) => SameModuloOrder(mergeOut.ab, mergeOut.ba)
  /\ Called(mergeOut.assoc) => SameModuloOrder(mergeOut.ab, mergeOut.assoc)

C16_Witness ==
  /\ Called(mergeOut.assoc)
  /\ mergeIn.mode = "count"
  /\ Len(mergeIn.A) = 2
  /\ \E i \in DOMAIN mergeOut.ab.profiles :
     \E j \in DOMAIN mergeOut.ab.profiles[i].Blocks :
       mergeOut.ab.profiles[i].Blocks[j].Count = 3

\* The first profile of A.
P == mergeIn.A[1]

DistinctIdentities(blocks) ==
  \A i, j \in DOMAIN blocks :
    i # j => makeBlockKey(blocks[i]) # makeBlockKey(blocks[j])

StrictlyOrdered(blocks) ==
  \A i, j \in DOMAIN blocks : i < j => Less(blocks[i], blocks[j])

\* C17 as stated: for every set-mode profile P, merge([P,P]) is P, blocks
\* in the same order.
C17_AsStated ==
  mergeIn.mode = "set" /\ Called(mergeOut.pp) =>
    /\ mergeOut.pp.err = "nil"
    /\ mergeOut.pp.profiles = <<P>>

\* C17: for every set-mode profile P whose blocks have pairwise distinct
\* identities, merge([P,P]) has P's file and exactly P's blocks with the
\* same counts; it is P itself when P's blocks are in strictly increasing
\* (startLine, startCol) order.
C17_Idempotent ==
  /\ mergeIn.mode = "set"
  /\ Called(mergeOut.pp)
  /\ DistinctIdentities(P.Blocks)
  => /\ SameModuloOrder(mergeOut.pp, [err |-> "nil", profiles |-> <<P>>])
     /\ StrictlyOrdered(P.Blocks) => mergeOut.pp.profiles = <<P>>

C17_Witness ==
  /\ mergeIn.mode = "set"
  /\ Called(mergeOut.pp)
  /\ DistinctIdentities(P.Blocks)
  /\ Len(P.Blocks) = 2
  /\ StrictlyOrdered(P.Blocks)
  /\ mergeOut.pp.profiles = <<P>>

\* The blocks of every profile of a successful result are ordered by
\* (StartLine, StartCol).
Sorted(r) ==
  r.err = "nil" =>
    \A p \in DOMAIN r.profiles :
      \A i, j \in DOMAIN r.profiles[p].Blocks :
        i < j => ~Less(r.profiles[p].Blocks[j], r.profiles[p].Blocks[i])

\* C18: after any successful merge the blocks of every output profile are
\* ordered by (startLine, startCol), whether the file occurred in one or
\* in several input profiles.
C18_OutputSorted ==
  /\ Sorted(mergeOut.ab) /\ Sorted(mergeOut.ba) /\ Sorted(mergeOut.a)
  /\ Sorted(mergeOut.assoc) /\ Sorted(mergeOut.pp)

\* ---- findMatchingDiffFile

\* The diff files that are a suffix of the profile's name at a "/".
BoundaryMatches ==
  {d \in matchIn.diffs : HasSuffix(matchIn.profile, <<"/">> \o d)}

\* C20: findMatchingDiffFile returns the diff file equal to the profile's
\* name if there is one; otherwise the longest diff file that is a suffix
\* of the profile's name at a "/" boundary; otherwise nothing.
C20_SuffixAtBoundary ==
  matchOut.called =>
    IF matchIn.profile \in matchIn.diffs
    THEN matchOut.ok /\ matchOut.file = matchIn.profile
    ELSE IF BoundaryMatches = {}
    THEN ~matchOut.ok
    ELSE /\ matchOut.ok
         /\ matchOut.file \in BoundaryMatches
         /\ \A d \in BoundaryMatches : Len(d) <= Len(matchOut.file)

\* ---- ParseProfiles / SerializeProfiles

\* C19: for coverage data that ParseProfiles accepts, ParseProfiles of the
\* SerializeProfiles output succeeds with the same profiles: same files,
\* modes and blocks in the same order.
C19_RoundTrip ==
  Called(parseOut.second) =>
    /\ parseOut.second.err = "nil"
    /\ parseOut.second.profiles = parseOut.first.profiles

\* ---- AnalyzeCoverage

\* The blocks of profile p that contain the line, both ends included.
Containing(p, line) ==
  {k \in DOMAIN p.Blocks :
     p.Blocks[k].StartLine <= line /\ line <= p.Blocks[k].EndLine}
LineClass(p, line) ==
  IF \E k \in Containing(p, line) : p.Blocks[k].Count > 0 THEN "covered"
  ELSE IF Containing(p, line) # {} THEN "uncovered"
  ELSE "non-instrumented"

\* The diff files the profiles were resolved to.
MatchesOf(i) ==
  findMatchingDiffFile(anaIn.profiles[i].FileName, DOMAIN anaIn.added)
MatchedTo(i, d) == \E m \in MatchesOf(i) : m.ok /\ m.file = d
OnlyMatch(i, d) ==
  /\ MatchedTo(i, d)
  /\ \A j \in DOMAIN anaIn.profiles : j # i => ~MatchedTo(j, d)
Bucket(d) ==
  IF d \in DOMAIN anaOut.UncoveredByFile THEN anaOut.UncoveredByFile[d]
  ELSE <<>>

\* C21: an added line is covered iff some block that contains it (both ends
\* included) has a count above 0, uncovered iff some block contains it and
\* none of those has a count above 0, and non-instrumented otherwise,
\* whatever the order of the blocks; the uncovered list of a diff file that
\* one profile was resolved to holds exactly the uncovered added lines.
C21_LineClasses ==
  /\ \A i \in DOMAIN anaIn.profiles : \A line \in 1..MaxLine :
       ClassifyLine(anaIn.profiles[i], line) = LineClass(anaIn.profiles[i], line)
  /\ anaOut.called =>
       \A i \in DOMAIN anaIn.profiles : \A d \in DOMAIN anaIn.added :
         OnlyMatch(i, d) =>
           Bucket(d) = SelectSeq(anaIn.added[d],
                         LAMBDA line : LineClass(anaIn.profiles[i], line) = "uncovered")

\* AnalyzeCoverage has run on a profile whose unexecuted block comes before
\* an executed block that ends on the line where the first begins, and that
\* line was added: it is not in the uncovered list, the next line is.
C21_Witness ==
  /\ anaOut.called
  /\ \E i \in DOMAIN anaIn.profiles : \E d \in DOMAIN anaIn.added :
       /\ OnlyMatch(i, d)
       /\ anaIn.profiles[i].Blocks =
            <<Block(2, 1, 3, 9, 1, 0), Block(1, 1, 2, 9, 1, 1)>>
       /\ anaIn.added[d] = <<2, 3>>
       /\ Bucket(d) = <<3>>

\* The number of lines held in the per-file uncovered lists.
RECURSIVE SumLen(_, _)
SumLen(f, S) ==
  IF S = {} THEN 0
  ELSE LET d == CHOOSE x \in S : TRUE
       IN  Len(f[d]) + SumLen(f, S \ {d})
UncoveredHeld == SumLen(anaOut.UncoveredByFile, DOMAIN anaOut.UncoveredByFile)

\* C22: in every analysis result, the covered added lines plus the lines
\* held in the per-file uncovered lists are the instrumented added lines,
\* which are at most the added lines; the uncovered total is the number of
\* lines held in the per-file uncovered lists.
C22_CounterInvariant ==
  anaOut.called =>
    /\ anaOut.covered + UncoveredHeld = anaOut.instrumented
    /\ anaOut.instrumented <= anaOut.TotalAdded
    /\ anaOut.TotalUncovered = UncoveredHeld

\* C23 as stated: a non-instrumented added line is not reported as
\* uncovered and is not counted as added.
C23_AsStated ==
  anaOut.called =>
    /\ \A d \in DOMAIN anaOut.UncoveredByFile :
         \A k \in DOMAIN anaOut.UncoveredByFile[d] :
           \E i \in DOMAIN anaIn.profiles :
             /\ MatchedTo(i, d)
             /\ Containing(anaIn.profiles[i], anaOut.UncoveredByFile[d][k]) # {}
    /\ anaOut.TotalAdded = anaOut.instrumented

\* C23: a non-instrumented added line is not reported as uncovered and not
\* counted as uncovered; it is counted as added.
C23_SkippedButCounted ==
  anaOut.called =>
    /\ \A d \in DOMAIN anaOut.UncoveredByFile :
         \A k \in DOMAIN anaOut.UncoveredByFile[d] :
           \E i \in DOMAIN anaIn.profiles :
             /\ MatchedTo(i, d)
             /\ Containing(anaIn.profiles[i], anaOut.UncoveredByFile[d][k]) # {}
    /\ anaOut.TotalUncovered = anaOut.instrumented - anaOut.covered
    /\ anaOut.TotalAdded = anaOut.instrumented + anaOut.skipped

\* AnalyzeCoverage has run on a diff with an added line that is in no block
\* of the profile its file was resolved to.
C23_Witness ==
  /\ anaOut.called
  /\ anaOut.skipped > 0
  /\ \E i \in DOMAIN anaIn.profiles : \E d \in DOMAIN anaIn.added :
       /\ OnlyMatch(i, d)
       /\ \E k \in DOMAIN anaIn.added[d] :
            Containing(anaIn.profiles[i], anaIn.added[d][k]) = {}
       /\ \E k \in DOMAIN anaIn.added[d] :
            LineClass(anaIn.profiles[i], anaIn.added[d][k]) = "uncovered"

\* ---- GenerateAnnotations

\* The ranges of the annotations of file d, in the order emitted.
RangesOf(d) == SelectSeq(annOut.annotations, LAMBDA a : a.Path = d)
LinesIn(R) ==
  UNION {R[k].StartLine..R[k].EndLine : k \in DOMAIN R}
NoRepeats(s) == \A i, j \in DOMAIN s : i # j => s[i] # s[j]

\* C24 as stated: for every list of uncovered lines of a file, the ranges
\* of its annotations are pairwise disjoint and ascending, and their union
\* is the set of the uncovered lines.
C24_AsStated ==
  annOut.called =>
    \A d \in DOMAIN annIn :
      /\ \A i, j \in DOMAIN RangesOf(d) :
           i < j => RangesOf(d)[i].EndLine < RangesOf(d)[j].StartLine
      /\ LinesIn(RangesOf(d)) = Range(annIn[d])

\* C24: for every list of uncovered lines of a file, the union of the
\* ranges of its annotations is the set of the uncovered lines and the
\* ranges are in ascending order of their start; when no line number is
\* repeated in the list, the ranges are pairwise disjoint too.
C24_RangesExact ==
  annOut.called =>
    \A d \in DOMAIN annIn :
      /\ LinesIn(RangesOf(d)) = Range(annIn[d])
      /\ \A i, j \in DOMAIN RangesOf(d) :
           i < j => RangesOf(d)[i].StartLine <= RangesOf(d)[j].StartLine
      /\ NoRepeats(annIn[d]) =>
           \A i, j \in DOMAIN RangesOf(d) :
             i < j => RangesOf(d)[i].EndLine < RangesOf(d)[j].StartLine

\* GenerateAnnotations has run on a file whose unsorted uncovered lines make
\* a range of two lines and a single line.
C24_Witness ==
  /\ annOut.called
  /\ <<"a">> \in DOMAIN annIn /\ annIn[<<"a">>] = <<4, 1, 2>>
  /\ Len(RangesOf(<<"a">>)) = 2
  /\ RangesOf(<<"a">>)[1].StartLine = 1 /\ RangesOf(<<"a">>)[1].EndLine = 2
  /\ RangesOf(<<"a">>)[2].StartLine = 4

\* ---- ParseDiff

\* The kinds of body lines that are lines of the new file.
InNewFile(l) == l.kind \in {"+", " ", "blank"}

\* The position in the new file of body line k of a hunk.
NewFilePosition(sec, k) ==
  sec.start + Cardinality({j \in 1..(k - 1) : InNewFile(sec.body[j])})

\* The positions of the hunk's added lines, in order.
AddedPositions(sec) ==
  LET at == SelectSeq([k \in DOMAIN sec.body |-> k],
                      LAMBDA k : sec.body[k].kind = "+")
  IN  [n \in DOMAIN at |-> NewFilePosition(sec, at[n])]

\* C25: for every hunk with a well-formed header, the added line numbers
\* ParseDiff records for the file are the positions in the new file of the
\* hunk's "+" lines, whatever the text of the added and removed lines.
C25_AddedLinePositions ==
  diffOut.called =>
    /\ diffOut.err = "nil"
    /\ Len(diffOut.fileDiffs) = Len(diffIn)
    /\ \A i \in DOMAIN diffIn :
         diffOut.fileDiffs[i].AddedLines = AddedPositions(diffIn[i])

\* ---- InMemoryQueue: Publish and Close

\* C28: under every interleaving of Publish and Close calls, repeated Close
\* calls included, no Publish is at its send (q.ch <- req) once the channel
\* is closed, close(q.ch) runs only on an open channel, and a Close on a
\* closed queue returns nil and changes nothing.
C28_NoSendNoCloseTwice ==
  /\ [](backend = "mem" =>
          /\ \A p \in Publishers : pubPc[p] = "select" => ~chClosed
          /\ chClosed <=> closed)
  /\ [][CloseLocked =>
          /\ closePc' = "idle" /\ closeReturned'
          /\ ~closed => ~chClosed /\ chClosed'
          /\ closed => UNCHANGED <<ch, chClosed, closed>>]_vars

\* A second Close waits for the lock of a closed queue while a Publish call
\* waits for it too, after a request was accepted.
C28_Witness ==
  /\ backend = "mem"
  /\ closed /\ closeReturned /\ closePc = "lock"
  /\ \E p \in Publishers : pubPc[p] = "rlock"
  /\ accepted # <<>>

\* C29: while a Publish waits at its select on a full buffer with its
\* context not cancelled and a Close waits for the lock, every step that
\* neither takes a request out of the buffer nor cancels that context
\* leaves the Publish at its select and the Close waiting.
C29_CloseWaitsForPublish ==
  [][\A p \in Publishers :
       (/\ backend = "mem"
        /\ pubPc[p] = "select" /\ Len(ch) >= BufSize /\ ~pubCtx[p]
        /\ closePc = "lock"
        /\ Len(ch') >= Len(ch) /\ ~pubCtx'[p])
       => (pubPc'[p] = "select" /\ closePc' = "lock" /\ ~closed')]_vars

\* A Publish waits at its select on a full buffer, a Close waits for the
\* lock, and no subscriber is running.
C29_Witness ==
  /\ backend = "mem"
  /\ \E p \in Publishers : pubPc[p] = "select" /\ ~pubCtx[p]
  /\ Len(ch) = BufSize
  /\ closePc = "lock" /\ ~closed
  /\ subPc = "idle"

\* The requests the handler was called on, in order.
LogIds == [i \in DOMAIN log |-> log[i].id]

=============================================================================
